---- MODULE Spec2Model ----
(***************************************************************************)
(* Verification model of the kernel ontogenesis engine of cographiql       *)
(* (packages/cographiql-hypergraph/src/kernel/ontogenesis.ts) together     *)
(* with the kernel generator, the B-series engine, the grip optimizer and  *)
(* the generator of rooted trees, and of the execution monitor of the      *)
(* cognitive mirror (src/self-awareness/cognitive-mirror.ts).              *)
(*                                                                         *)
(* Objects that the TypeScript code shares by reference (genome,           *)
(* ontogenetic state, B-series expansion) live in heaps indexed by         *)
(* reference; a kernel object is a record holding references into them.    *)
(* Maturity is an IEEE-754 double, represented exactly in units of 2^-56   *)
(* as two 28-bit limbs.  Grip, fitness and coefficients are fixed-point    *)
(* numbers with Scale units per 1.0.                                       *)
(***************************************************************************)
EXTENDS Integers, Sequences, FiniteSets, TLC

----------------------------------------------------------------------------
(* Bounds of the model *)

MaxSeeds == 2
MaxPopulationSize == 2
MaxGenerations == 2
MaxOffspringRounds == 2
MaxDirectRounds == 1
MaxCalls == 2
MaxLifeCalls == 22
MaxLifeOperations == 1
MaxRungeKuttaOrder == 4
MaxTreeOrder == 10
MaxCompositions == 7
MaxCoefficient == 8000
MaxHistoryCalls == 1003
MaxVariedCalls == 2
MaxMatureCalls == 3
MaxMirrorCalls == 103
MaxInFlight == 2

----------------------------------------------------------------------------
(* Number representation *)

Scale == 1000

Limb == 268435456

Min(a, b) == IF a <= b THEN a ELSE b

Max(a, b) == IF a >= b THEN a ELSE b

Abs(a) == IF a < 0 THEN 0 - a ELSE a

\* A double d in [0, 2) is the pair <<hi, lo>> with d = (hi*2^28 + lo) * 2^-56.
FZero == <<0, 0>>

FTenth == <<26843545, 161061274>>

FHalf == <<134217728, 0>>

FEightTenths == <<214748364, 214748368>>

FOne == <<268435456, 0>>

FLess(a, b) == a[1] < b[1] \/ (a[1] = b[1] /\ a[2] < b[2])

FGeq(a, b) == ~FLess(a, b)

FMin(a, b) == IF FLess(b, a) THEN b ELSE a

\* exact sum of two values, limbs normalised
ExactAdd(a, b) ==
  LET lo == a[2] + b[2]
  IN  <<a[1] + b[1] + (lo \div Limb), lo % Limb>>

\* spacing of doubles (in units of 2^-56) in the binade that holds x
Ulp(x) ==
  IF x[1] < 33554432 THEN 1
  ELSE IF x[1] < 67108864 THEN 2
  ELSE IF x[1] < 134217728 THEN 4
  ELSE IF x[1] < 268435456 THEN 8
  ELSE 16

\* round an exact value to the nearest double, ties to even
RoundToDouble(x) ==
  LET q    == Ulp(x)
      r    == x[2] % q
      down == x[2] - r
      up   == IF 2 * r > q THEN TRUE
              ELSE IF 2 * r < q THEN FALSE
              ELSE (down \div q) % 2 = 1
      lo   == IF up THEN down + q ELSE down
  IN  <<x[1] + (lo \div Limb), lo % Limb>>

\* the double addition a + b
FAdd(a, b) == RoundToDouble(ExactAdd(a, b))

RECURSIVE ExactTimes(_, _)
\* exact n * a for a natural number n
ExactTimes(a, n) == IF n = 0 THEN FZero ELSE ExactAdd(ExactTimes(a, n - 1), a)

\* the double product a * n for a small natural number n
FTimes(a, n) == RoundToDouble(ExactTimes(a, n))

\* |a - b| in units of 2^-56, for values less than 2^-25 apart
FDistance(a, b) == Abs((a[1] - b[1]) * Limb + (a[2] - b[2]))

----------------------------------------------------------------------------
(* Sequence helpers *)

RECURSIVE SeqSum(_)
SeqSum(s) == IF s = <<>> THEN 0 ELSE Head(s) + SeqSum(Tail(s))

RECURSIVE SeqMax(_)
SeqMax(s) == IF Len(s) = 1 THEN s[1] ELSE Max(Head(s), SeqMax(Tail(s)))

\* Array.prototype.slice(from, to) with 0-based, end-exclusive indices
Slice(s, from, to) ==
  LET lo == Min(from, Len(s))
      hi == Min(to, Len(s))
  IN  IF hi <= lo THEN <<>> ELSE [i \in 1..(hi - lo) |-> s[lo + i]]

----------------------------------------------------------------------------
(* Rooted trees and B-series expansions *)

RECURSIVE PartitionCount(_, _)
\* number of lists generatePartitions(n) returns: parts in non-decreasing order,
\* here with every part at least least
PartitionCount(n, least) ==
  IF n = 0 THEN 1
  ELSE IF n < least THEN 0
  ELSE PartitionCount(n - least, least) + PartitionCount(n, least + 1)

\* number of trees ElementaryDifferentialsGenerator.generate returns: the
\* hardcoded catalog for orders 1 to 4, one tree per partition of order-1 above
TreeCount(order) ==
  CASE order = 1 -> 1
    [] order = 2 -> 1
    [] order = 3 -> 2
    [] order = 4 -> 5
    [] OTHER -> IF order <= 0 THEN 0 ELSE PartitionCount(order - 1, 1)

\* a tree is named by its order and its position in the catalog
GenerateTrees(order) == [i \in 1..TreeCount(order) |-> <<order, i>>]

\* ElementaryDifferentialsGenerator.count: the table of A000081
Count(n) ==
  <<1, 1, 2, 4, 9, 20, 48, 115, 286, 719, 1842, 4766, 12486, 32973>>[n]

RECURSIVE Factorial(_)
Factorial(n) == IF n <= 1 THEN 1 ELSE n * Factorial(n - 1)

RECURSIVE PartitionsFrom(_, _)
\* the lists generatePartitions(n) returns whose parts are at least least, in
\* the order it returns them
PartitionsFrom(n, least) ==
  IF n = 0 THEN <<(<<>>)>>
  ELSE IF n < least THEN <<>>
  ELSE LET rest == PartitionsFrom(n - least, least)
       IN  [i \in 1..Len(rest) |-> <<least>> \o rest[i]]
             \o PartitionsFrom(n, least + 1)

\* children of the i-th tree generateRecursive(order) builds: the orders of
\* its subtrees, each the first tree generate returns for its order
ChildOrders(order, i) == PartitionsFrom(order - 1, 1)[i]

\* symmetryFactor of the first tree generate(order) returns
FirstTreeSymmetry(order) ==
  CASE order <= 2 -> 1
    [] order = 3 -> 2
    [] OTHER -> Factorial(order - 1)

RECURSIVE Product(_)
Product(s) == IF s = <<>> THEN 1 ELSE Head(s) * Product(Tail(s))

\* ElementaryDifferentialsGenerator.symmetryFactor: on the catalog trees of
\* orders 1 to 4, and on the trees of generateRecursive, where two children
\* are identical exactly when they have the same order
SymmetryFactor(tree) ==
  IF tree[1] <= 4
  THEN CASE tree = <<3, 1>> -> 2
         [] tree = <<4, 1>> -> 6
         [] tree = <<4, 4>> -> 2
         [] OTHER -> 1
  ELSE LET parts == ChildOrders(tree[1], tree[2])
           multiplicity(p) == Cardinality({j \in 1..Len(parts) : parts[j] = p})
           distinct == {parts[j] : j \in 1..Len(parts)}
           RECURSIVE Multiplicities(_)
           Multiplicities(ps) ==
             IF ps = {} THEN 1
             ELSE LET q == CHOOSE x \in ps : TRUE
                  IN  Factorial(multiplicity(q)) * Multiplicities(ps \ {q})
       IN  Multiplicities(distinct)
             * Product([j \in 1..Len(parts) |-> FirstTreeSymmetry(parts[j])])

\* sum over the tableau stages of b[i] * c[i]^(order-1), in fixed point; from
\* order 5 on the tableau is the one of order 4
TableauWeight(order) ==
  CASE order = 1 -> Scale
    [] order = 2 -> Scale \div 2
    [] order = 3 -> Scale \div 3
    [] order = 4 -> Scale \div 4
    [] OTHER -> (2 * Scale) \div (3 * 2 ^ (order - 1)) + Scale \div 6

ComputeCoefficient(tree) ==
  TableauWeight(tree[1]) \div (SymmetryFactor(tree) * tree[1])

\* the four goal presets of the generator
InitializeGrip(goal) ==
  LET m == CASE goal = "speed" ->
                  [contact |-> 600, coverage |-> 700, efficiency |-> 1000, stability |-> 600]
             [] goal = "accuracy" ->
                  [contact |-> 1000, coverage |-> 1000, efficiency |-> 500, stability |-> 900]
             [] goal = "stability" ->
                  [contact |-> 800, coverage |-> 800, efficiency |-> 600, stability |-> 1000]
             [] OTHER ->
                  [contact |-> 800, coverage |-> 800, efficiency |-> 800, stability |-> 800]
  IN  [contact |-> m.contact, coverage |-> m.coverage, efficiency |-> m.efficiency,
       stability |-> m.stability,
       overall |-> (m.contact + m.coverage + m.efficiency + m.stability) \div 4]

\* BSeriesExpansion: the terms are the per-tree coefficients, in tree order
GenerateExpansion(domain, gripMetric) ==
  [domain |-> domain,
   terms |-> [i \in 1..TreeCount(domain.order) |->
                ComputeCoefficient(GenerateTrees(domain.order)[i])],
   convergenceOrder |-> domain.order,
   grip |-> gripMetric]

----------------------------------------------------------------------------
(* Grip optimizer *)

RECURSIVE ISqrtIn(_, _, _)
ISqrtIn(n, lo, hi) ==
  IF lo >= hi THEN lo
  ELSE LET mid == (lo + hi + 1) \div 2
       IN  IF mid * mid <= n THEN ISqrtIn(n, mid, hi) ELSE ISqrtIn(n, lo, mid - 1)

\* Math.sqrt on a fixed-point square, rounded down
ISqrt(n) == ISqrtIn(n, 0, Min(n, 46340))

VectorNorm(v) == ISqrt(SeqSum([i \in 1..Len(v) |-> v[i] * v[i]]))

ComputeVariance(v) ==
  LET mean == SeqSum(v) \div Len(v)
  IN  SeqSum([i \in 1..Len(v) |-> ((v[i] - mean) * (v[i] - mean)) \div Scale]) \div Len(v)

\* sin(i * PI / order) in fixed point, for orders up to 4 and for order 10
SinTable(i, order) ==
  CASE i = 0 -> 0
    [] order = 2 -> 1000
    [] order = 3 -> 866
    [] order = 4 /\ i = 2 -> 1000
    [] order = 10 -> <<309, 588, 809, 951, 1000, 951, 809, 588, 309>>[i]
    [] OTHER -> 707

\* exp(-i / 2) in fixed point, for i up to 9
ExpTable(i) ==
  <<1000, 607, 368, 223, 135, 82, 50, 30, 18, 11>>[i + 1]

GetDomainWeights(domain) ==
  [j \in 1..domain.order |->
     LET i == j - 1
     IN  CASE domain.type = "physics" ->
                (IF i % 2 = 0 THEN Scale ELSE 0 - Scale) \div (i + 1)
           [] domain.type = "chemistry" -> ExpTable(i)
           [] domain.type = "biology" -> Scale \div (1 + i * i)
           [] domain.type = "computing" -> Scale \div (2 ^ i)
           [] domain.type = "consciousness" -> SinTable(i, domain.order)
           [] OTHER -> Scale \div (i + 1)]

ComputeContact(coeffs, domain) ==
  LET w   == GetDomainWeights(domain)
      n   == Min(Len(coeffs), Len(w))
      dot == SeqSum([i \in 1..n |-> coeffs[i] * w[i]])
      cn  == VectorNorm(coeffs)
      wn  == VectorNorm(w)
  IN  IF cn = 0 \/ wn = 0 THEN 0
      ELSE (Abs(dot) * 100) \div Max(1, (cn * wn) \div 10)

ComputeCoverage(coeffs) ==
  (Cardinality({i \in 1..Len(coeffs) : coeffs[i] # 0}) * Scale) \div Len(coeffs)

ComputeEfficiency(coeffs) ==
  LET sparsity == (Cardinality({i \in 1..Len(coeffs) : coeffs[i] = 0}) * Scale)
                    \div Len(coeffs)
  IN  sparsity \div 2 + (Scale * Scale) \div (2 * (Scale + VectorNorm(coeffs)))

ComputeStability(coeffs) ==
  LET maxCoeff    == SeqMax([i \in 1..Len(coeffs) |-> Abs(coeffs[i])])
      boundedness == (Scale * Scale) \div (Scale + maxCoeff)
      smoothness  == (Scale * Scale) \div (Scale + ComputeVariance(coeffs))
  IN  (boundedness + smoothness) \div 2

MeasureGrip(coeffs, domain) ==
  LET contact    == ComputeContact(coeffs, domain)
      coverage   == ComputeCoverage(coeffs)
      efficiency == ComputeEfficiency(coeffs)
      stability  == ComputeStability(coeffs)
  IN  [contact |-> contact, coverage |-> coverage, efficiency |-> efficiency,
       stability |-> stability,
       overall |-> (3 * contact + 3 * coverage + 2 * efficiency + 2 * stability) \div 10]

\* The gradient ascent of GripOptimizer.optimize is numeric; the model keeps its
\* two shapes.  moved = FALSE: the gradient norm is below the tolerance at once,
\* so the expansion's own coefficients and grip come back with 0 iterations.
\* moved = TRUE: steps were taken, every coefficient has moved by GradientStep
\* and the grip is measured on the result.
GradientStep == 10

Optimize(expansion, moved) ==
  IF moved
  THEN LET coeffs == [i \in 1..Len(expansion.terms) |-> expansion.terms[i] + GradientStep]
       IN  [coefficients |-> coeffs, grip |-> MeasureGrip(coeffs, expansion.domain),
            iterations |-> 1]
  ELSE [coefficients |-> expansion.terms, grip |-> expansion.grip, iterations |-> 0]

----------------------------------------------------------------------------
(* Kernel generator *)

\* A kernel object is a record.  bSeries, genome and ontogeneticState are
\* references (indices) into the heaps of the objects that the code shares
\* between kernels; genome = 0 and ontogeneticState = 0 on a GeneratedKernel
\* that has not been through initialize.  The heap h is the record
\* [genomes, states, bseries, logs, nextId, operationHistory].

PreservedQuantities == 3

ConsciousnessDomain(order) ==
  [type |-> "consciousness", order |-> order, treeType |-> "echo"]

AllocExpansion(h, expansion) ==
  [h |-> [h EXCEPT !.bseries = Append(@, expansion)], ref |-> Len(h.bseries) + 1]

\* UniversalKernelGenerator.generate for a valid domain
Generate(h, domain, goal, moved) ==
  LET bSeries   == GenerateExpansion(domain, InitializeGrip(goal))
      optimized == Optimize(bSeries, moved)
      a         == AllocExpansion(h, [bSeries EXCEPT !.grip = optimized.grip])
  IN  [h |-> a.h,
       k |-> [domain |-> domain,
              order |-> domain.order,
              trees |-> GenerateTrees(domain.order),
              coefficients |-> optimized.coefficients,
              grip |-> optimized.grip,
              bSeries |-> a.ref,
              optimizationIterations |-> optimized.iterations,
              genome |-> 0,
              ontogeneticState |-> 0]]

GenerateConsciousnessKernel(h, order, moved) ==
  Generate(h, ConsciousnessDomain(order), "balanced", moved)

GeneratePhysicsKernel(h, order, moved) ==
  Generate(h, [type |-> "physics", order |-> order, treeType |-> "hamiltonian"],
           "stability", moved)

GenerateChemistryKernel(h, order, moved) ==
  Generate(h, [type |-> "chemistry", order |-> order, treeType |-> "reaction"],
           "accuracy", moved)

GenerateBiologyKernel(h, order, moved) ==
  Generate(h, [type |-> "biology", order |-> order, treeType |-> "metabolic"],
           "balanced", moved)

GenerateComputingKernel(h, order, moved) ==
  Generate(h, [type |-> "computing", order |-> order, treeType |-> "recursion"],
           "speed", moved)

\* the preset of the domain type
GeneratePreset(h, type, order, moved) ==
  CASE type = "physics" -> GeneratePhysicsKernel(h, order, moved)
    [] type = "chemistry" -> GenerateChemistryKernel(h, order, moved)
    [] type = "biology" -> GenerateBiologyKernel(h, order, moved)
    [] type = "computing" -> GenerateComputingKernel(h, order, moved)
    [] OTHER -> GenerateConsciousnessKernel(h, order, moved)

MaxDomainOrder == 10

\* validateDomain without the tree type test of lines 231-250
ValidateDomainAnyTreeType(domain) ==
  LET validTypes == {"physics", "chemistry", "biology", "computing", "consciousness"}
  IN  IF domain.type \notin validTypes THEN FALSE
      ELSE IF domain.order < 1 \/ domain.order > MaxDomainOrder THEN FALSE
      ELSE TRUE

\* DomainAnalyzer.validateDomain
ValidateDomain(domain) ==
  LET validTypes == {"physics", "chemistry", "biology", "computing", "consciousness"}
      allowedTypes == CASE domain.type = "physics" -> {"hamiltonian"}
                        [] domain.type = "chemistry" -> {"reaction"}
                        [] domain.type = "biology" -> {"metabolic"}
                        [] domain.type = "computing" -> {"recursion"}
                        [] domain.type = "consciousness" -> {"echo"}
                        [] OTHER -> {}
  IN  IF domain.type \notin validTypes THEN FALSE
      ELSE IF domain.order < 1 \/ domain.order > MaxDomainOrder THEN FALSE
      ELSE domain.treeType \in allowedTypes

\* BSeriesEngine.generateRungeKutta
GenerateRungeKutta(order) ==
  GenerateExpansion([type |-> "computing", order |-> order, treeType |-> "recursion"],
                    [contact |-> 1000, coverage |-> 1000, efficiency |-> 900,
                     stability |-> 1000, overall |-> 975])

\* expansion.terms.filter(t => t.order === order): every term of an expansion
\* is built on a tree of generate(convergenceOrder), whose order is
\* convergenceOrder
TermsOfOrder(expansion, order) ==
  IF order = expansion.convergenceOrder THEN expansion.terms ELSE <<>>

\* the tolerance 1e-10 of verifyOrderConditions, widened to the resolution of
\* the fixed point
OrderTolerance == 1

\* the test verifyOrderConditions makes for one order
OrderCondition(expansion, order) ==
  Abs(SeqSum(TermsOfOrder(expansion, order)) - Scale \div Factorial(order))
    <= OrderTolerance

\* BSeriesEngine.verifyOrderConditions
VerifyOrderConditions(expansion) ==
  \A order \in 1..expansion.convergenceOrder : OrderCondition(expansion, order)

SufficientGrip == 600

IsSufficientGrip(grip, threshold) == grip.overall >= threshold

\* UniversalKernelGenerator.verify
Verify(h, kernel) ==
  IF ~VerifyOrderConditions(h.bseries[kernel.bSeries]) THEN FALSE
  ELSE IF ~IsSufficientGrip(kernel.grip, SufficientGrip) THEN FALSE
  ELSE IF ~ValidateDomain(kernel.domain) THEN FALSE
  ELSE TRUE

\* BSeriesEngine.findCoefficient: the term whose tree has the label of tree
FindCoefficient(tree, expansion) ==
  IF tree[1] = expansion.convergenceOrder /\ tree[2] <= Len(expansion.terms)
  THEN expansion.terms[tree[2]]
  ELSE 0

BSeriesChainCompose(f, g) ==
  LET maxOrder == Max(f.convergenceOrder, g.convergenceOrder)
      trees    == GenerateTrees(maxOrder)
  IN  [domain |-> f.domain,
       terms |-> [i \in 1..Len(trees) |->
                    (FindCoefficient(trees[i], f) * FindCoefficient(trees[i], g)) \div Scale],
       convergenceOrder |-> maxOrder,
       grip |-> [contact |-> (f.grip.contact + g.grip.contact) \div 2,
                 coverage |-> (f.grip.coverage + g.grip.coverage) \div 2,
                 efficiency |-> (f.grip.efficiency * g.grip.efficiency) \div Scale,
                 stability |-> Min(f.grip.stability, g.grip.stability),
                 overall |-> (f.grip.overall + g.grip.overall) \div 2]]

BSeriesProductCompose(f, g) ==
  LET maxOrder == Max(f.convergenceOrder, g.convergenceOrder)
      trees    == GenerateTrees(maxOrder)
  IN  [domain |-> f.domain,
       terms |-> [i \in 1..Len(trees) |->
                    FindCoefficient(trees[i], f) + FindCoefficient(trees[i], g)],
       convergenceOrder |-> maxOrder,
       grip |-> [contact |-> Max(f.grip.contact, g.grip.contact),
                 coverage |-> (f.grip.coverage + g.grip.coverage) \div 2,
                 efficiency |-> (f.grip.efficiency + g.grip.efficiency) \div 2,
                 stability |-> Min(f.grip.stability, g.grip.stability),
                 overall |-> (f.grip.overall + g.grip.overall) \div 2]]

\* chainCompose and productCompose of the generator: a kernel around the
\* composed expansion
ComposedKernel(h, f, g, composed) ==
  LET a == AllocExpansion(h, composed)
  IN  [h |-> a.h,
       k |-> [domain |-> f.domain,
              order |-> Max(f.order, g.order),
              trees |-> GenerateTrees(composed.convergenceOrder),
              coefficients |-> composed.terms,
              grip |-> composed.grip,
              bSeries |-> a.ref,
              optimizationIterations |-> 0,
              genome |-> 0,
              ontogeneticState |-> 0]]

QuotientCompose(h, f, g) ==
  LET maxOrder == Max(f.order, g.order)
      trees    == GenerateTrees(maxOrder)
      coefficients ==
        [i \in 1..Len(trees) |->
           LET fCoeff == IF i <= Len(f.coefficients) THEN f.coefficients[i] ELSE 0
               gCoeff == IF i <= Len(g.coefficients) THEN g.coefficients[i] ELSE 0
           IN  ((fCoeff - gCoeff) * Scale) \div (Scale + Abs(gCoeff))]
      grip == [contact |-> (f.grip.contact + g.grip.contact) \div 2,
               coverage |-> Min(f.grip.coverage, g.grip.coverage),
               efficiency |-> (f.grip.efficiency * g.grip.efficiency) \div Scale,
               stability |-> (Min(f.grip.stability, g.grip.stability) * 9) \div 10,
               overall |-> ((f.grip.overall + g.grip.overall) * 10) \div 22]
      a == AllocExpansion(h, [domain |-> f.domain, terms |-> coefficients,
                              convergenceOrder |-> maxOrder, grip |-> grip])
  IN  [h |-> a.h,
       k |-> [domain |-> f.domain,
              order |-> maxOrder,
              trees |-> trees,
              coefficients |-> coefficients,
              grip |-> grip,
              bSeries |-> a.ref,
              optimizationIterations |-> 0,
              genome |-> 0,
              ontogeneticState |-> 0]]

ApplyOperator(h, operator, left, right) ==
  CASE operator = "chain" ->
         ComposedKernel(h, left, right,
                        BSeriesChainCompose(h.bseries[left.bSeries], h.bseries[right.bSeries]))
    [] operator = "product" ->
         ComposedKernel(h, left, right,
                        BSeriesProductCompose(h.bseries[left.bSeries], h.bseries[right.bSeries]))
    [] OTHER -> QuotientCompose(h, left, right)

----------------------------------------------------------------------------
(* Ontogenesis engine: objects *)

HistoryLimit == 1000

EmptyHeap ==
  [genomes |-> <<>>, states |-> <<>>, bseries |-> <<>>, logs |-> <<>>, nextId |-> 1,
   operationHistory |-> <<>>]

\* generateId, taken never to repeat a value
GenerateId(h) == [h |-> [h EXCEPT !.nextId = @ + 1], id |-> h.nextId]

AllocGenome(h, genome) ==
  [h |-> [h EXCEPT !.genomes = Append(@, genome)], ref |-> Len(h.genomes) + 1]

AllocState(h, state) ==
  [h |-> [h EXCEPT !.states = Append(@, state)], ref |-> Len(h.states) + 1]

GenomeOf(h, kernel) == h.genomes[kernel.genome]

StateOf(h, kernel) == h.states[kernel.ontogeneticState]

ExtractGenome(h, kernel) ==
  LET genes == [i \in 1..Len(kernel.coefficients) |->
                  [type |-> "coefficient", expressionStrength |-> 1000]]
               \o <<[type |-> "symmetry", expressionStrength |-> 800]>>
               \o [i \in 1..PreservedQuantities |->
                     [type |-> "preservation", expressionStrength |-> 900]]
      g == GenerateId(h)
  IN  AllocGenome(g.h, [id |-> g.id, generation |-> 0, lineage |-> <<>>,
                        genes |-> genes, fitness |-> kernel.grip.overall, age |-> 0])

\* developmentHistory is an array object of its own: a reference into h.logs,
\* each entry the type of a development event
CreateInitialState(h) ==
  AllocState([h EXCEPT !.logs = Append(@, <<>>)],
             [stage |-> "embryonic", maturity |-> FZero,
              reproductiveCapability |-> 0, mutations |-> <<>>,
              developmentHistory |-> Len(h.logs) + 1])

\* kernel.ontogeneticState.developmentHistory.push(event)
PushDevelopment(h, kernel, type) ==
  [h EXCEPT !.logs[StateOf(h, kernel).developmentHistory] = Append(@, type)]

Initialize(h, kernel) ==
  LET g  == ExtractGenome(h, kernel)
      st == CreateInitialState(g.h)
  IN  [h |-> st.h,
       k |-> [kernel EXCEPT !.genome = g.ref, !.ontogeneticState = st.ref]]

\* recordOperation without the limit of lines 680-682
RecordOperationNoLimit(h, type) ==
  [h EXCEPT !.operationHistory = Append(@, type)]

RecordOperation(h, type) ==
  LET pushed == Append(h.operationHistory, type)
  IN  [h EXCEPT !.operationHistory =
         IF Len(pushed) > HistoryLimit THEN Tail(pushed) ELSE pushed]

\* selectOperator returning product from maturity 0.5 on
SelectOperatorProductWhenMature(h, kernel) ==
  IF FLess(StateOf(h, kernel).maturity, FHalf) THEN "chain" ELSE "product"

SelectOperator(h, kernel) ==
  LET maturity == StateOf(h, kernel).maturity
  IN  IF FLess(maturity, FHalf) THEN "chain"
      ELSE IF FLess(maturity, FEightTenths) THEN "product"
      ELSE "quotient"

\* selfGenerate without line 70: the offspring keeps the generation that
\* initialize gave it
SelfGenerateKeepsGeneration(h, parent) ==
  LET composed  == ApplyOperator(h, SelectOperator(h, parent), parent, parent)
      offspring == Initialize(composed.h, composed.k)
      h2 == [offspring.h EXCEPT
               !.genomes[offspring.k.genome].lineage = <<GenomeOf(h, parent).id>>]
  IN  [h |-> RecordOperation(h2, "self-generate"), k |-> offspring.k]

SelfGenerate(h, parent) ==
  LET composed  == ApplyOperator(h, SelectOperator(h, parent), parent, parent)
      offspring == Initialize(composed.h, composed.k)
      h2 == [offspring.h EXCEPT
               !.genomes[offspring.k.genome].generation = GenomeOf(h, parent).generation + 1,
               !.genomes[offspring.k.genome].lineage = <<GenomeOf(h, parent).id>>]
  IN  [h |-> RecordOperation(h2, "self-generate"), k |-> offspring.k]

RECURSIVE OptimizeLoopNoCap(_, _, _, _)
\* the loop of selfOptimize without the Math.min of lines 109-112
OptimizeLoopNoCap(h, current, remaining, moved) ==
  IF remaining = 0 THEN [h |-> h, k |-> current]
  ELSE LET optimized == Optimize(h.bseries[current.bSeries], moved)
           a  == AllocExpansion(h, [h.bseries[current.bSeries] EXCEPT !.grip = optimized.grip])
           next == [current EXCEPT !.coefficients = optimized.coefficients,
                                   !.grip = optimized.grip,
                                   !.bSeries = a.ref,
                                   !.optimizationIterations = @ + 1]
           h2 == [a.h EXCEPT !.states[next.ontogeneticState].maturity = FAdd(@, FTenth)]
       IN  OptimizeLoopNoCap(PushDevelopment(h2, next, "optimization"), next,
                             remaining - 1, moved)

RECURSIVE OptimizeLoop(_, _, _, _)
\* the for loop of selfOptimize; current shares its ontogenetic state object
\* with the kernel passed in
OptimizeLoop(h, current, remaining, moved) ==
  IF remaining = 0 THEN [h |-> h, k |-> current]
  ELSE LET optimized == Optimize(h.bseries[current.bSeries], moved)
           a  == AllocExpansion(h, [h.bseries[current.bSeries] EXCEPT !.grip = optimized.grip])
           next == [current EXCEPT !.coefficients = optimized.coefficients,
                                   !.grip = optimized.grip,
                                   !.bSeries = a.ref,
                                   !.optimizationIterations = @ + 1]
           h2 == [a.h EXCEPT !.states[next.ontogeneticState].maturity =
                                FMin(FOne, FAdd(@, FTenth))]
       IN  OptimizeLoop(PushDevelopment(h2, next, "optimization"), next,
                        remaining - 1, moved)

SelfOptimize(h, kernel, iterations, moved) ==
  LET r == OptimizeLoop(h, kernel, iterations, moved)
  IN  [h |-> RecordOperation(r.h, "self-optimize"), k |-> r.k]

----------------------------------------------------------------------------
(* Ontogenesis engine: reproduction *)

Variance(values) ==
  LET mean == SeqSum(values) \div Len(values)
  IN  SeqSum([i \in 1..Len(values) |->
                ((values[i] - mean) * (values[i] - mean)) \div Scale]) \div Len(values)

RecalculateGrip(kernel) ==
  LET coeffSum      == SeqSum([i \in 1..Len(kernel.coefficients) |->
                                 Abs(kernel.coefficients[i])])
      coeffVariance == Variance(kernel.coefficients)
      contact    == Min(Scale, coeffSum \div Len(kernel.coefficients))
      coverage   == Min(Scale, (Scale * Scale) \div (Scale + coeffVariance))
      efficiency == (kernel.grip.efficiency * 95) \div 100
      stability  == Min(Scale, Scale - coeffVariance \div 10)
  IN  [contact |-> contact, coverage |-> coverage, efficiency |-> efficiency,
       stability |-> stability,
       overall |-> (contact + coverage + efficiency + stability) \div 4]

MergeGenes(genes1, genes2) ==
  [i \in 1..Max(Len(genes1), Len(genes2)) |->
     IF i <= Len(genes1) /\ i <= Len(genes2)
     THEN [genes1[i] EXCEPT !.expressionStrength =
             (genes1[i].expressionStrength + genes2[i].expressionStrength) \div 2]
     ELSE IF i <= Len(genes1) THEN genes1[i] ELSE genes2[i]]

\* createOffspring assigning generation, lineage, genes, fitness and age on the
\* genome object of parent1, which the spread of line 404 shares, instead of
\* building a genome with an id of its own
CreateOffspringOnParentGenome(h, parent1, parent2, coefficients) ==
  LET h1 == [h EXCEPT !.genomes[parent1.genome] =
               [@ EXCEPT !.generation = Max(GenomeOf(h, parent1).generation,
                                            GenomeOf(h, parent2).generation) + 1,
                         !.lineage = <<GenomeOf(h, parent1).id, GenomeOf(h, parent2).id>>,
                         !.genes = MergeGenes(GenomeOf(h, parent1).genes,
                                              GenomeOf(h, parent2).genes),
                         !.fitness = 0,
                         !.age = 0]]
      st == CreateInitialState(h1)
      offspring == [parent1 EXCEPT !.coefficients = coefficients,
                                   !.ontogeneticState = st.ref]
      grip == RecalculateGrip(offspring)
  IN  [h |-> [st.h EXCEPT !.bseries[offspring.bSeries].grip = grip],
       k |-> [offspring EXCEPT !.grip = grip]]

CreateOffspring(h, parent1, parent2, coefficients) ==
  LET g  == GenerateId(h)
      a  == AllocGenome(g.h,
              [id |-> g.id,
               generation |-> Max(GenomeOf(h, parent1).generation,
                                  GenomeOf(h, parent2).generation) + 1,
               lineage |-> <<GenomeOf(h, parent1).id, GenomeOf(h, parent2).id>>,
               genes |-> MergeGenes(GenomeOf(h, parent1).genes, GenomeOf(h, parent2).genes),
               fitness |-> 0,
               age |-> 0])
      st == CreateInitialState(a.h)
      offspring == [parent1 EXCEPT !.coefficients = coefficients,
                                   !.genome = a.ref,
                                   !.ontogeneticState = st.ref]
      grip == RecalculateGrip(offspring)
  IN  [h |-> [st.h EXCEPT !.bseries[offspring.bSeries].grip = grip],
       k |-> [offspring EXCEPT !.grip = grip]]

\* crossover with the second offspring spliced in the order of the first
CrossoverOneSplice(h, parent1, parent2, point) ==
  LET offspring1Coeffs == Slice(parent1.coefficients, 0, point)
                          \o Slice(parent2.coefficients, point, Len(parent2.coefficients))
      o1 == CreateOffspring(h, parent1, parent2, offspring1Coeffs)
      o2 == CreateOffspring(o1.h, parent1, parent2, offspring1Coeffs)
  IN  [h |-> o2.h, ks |-> <<o1.k, o2.k>>]

\* returns the heap and the list of the two offspring
Crossover(h, parent1, parent2, point) ==
  LET offspring1Coeffs == Slice(parent1.coefficients, 0, point)
                          \o Slice(parent2.coefficients, point, Len(parent2.coefficients))
      offspring2Coeffs == Slice(parent2.coefficients, 0, point)
                          \o Slice(parent1.coefficients, point, Len(parent1.coefficients))
      o1 == CreateOffspring(h, parent1, parent2, offspring1Coeffs)
      o2 == CreateOffspring(o1.h, parent1, parent2, offspring2Coeffs)
  IN  [h |-> o2.h, ks |-> <<o1.k, o2.k>>]

\* mutate pushing the record onto the mutation list of the ontogenetic state
\* that the spread of line 347 shares with the kernel passed in
MutateSharedState(h, kernel, idx, mutation) ==
  LET oldValue == kernel.coefficients[idx + 1]
      coeffs   == [kernel.coefficients EXCEPT ![idx + 1] = @ + mutation]
      record   == [geneIndex |-> idx, oldValue |-> oldValue,
                   newValue |-> coeffs[idx + 1], impact |-> mutation]
      h1 == [h EXCEPT !.states[kernel.ontogeneticState].mutations = Append(@, record)]
      mutated == [kernel EXCEPT !.coefficients = coeffs]
      newGrip == RecalculateGrip(mutated)
  IN  [h |-> [h1 EXCEPT !.bseries[mutated.bSeries].grip = newGrip],
       k |-> [mutated EXCEPT !.grip = newGrip]]

\* idx is the 0-based index drawn, mutation the amount drawn in [-0.1, 0.1)
Mutate(h, kernel, idx, mutation) ==
  LET oldValue == kernel.coefficients[idx + 1]
      coeffs   == [kernel.coefficients EXCEPT ![idx + 1] = @ + mutation]
      record   == [geneIndex |-> idx, oldValue |-> oldValue,
                   newValue |-> coeffs[idx + 1], impact |-> mutation]
      st == AllocState(h, [StateOf(h, kernel) EXCEPT !.mutations = Append(@, record)])
      mutated == [kernel EXCEPT !.coefficients = coeffs, !.ontogeneticState = st.ref]
      newGrip == RecalculateGrip(mutated)
  IN  [h |-> [st.h EXCEPT !.bseries[mutated.bSeries].grip = newGrip],
       k |-> [mutated EXCEPT !.grip = newGrip]]

\* clone without line 390: the copy keeps the ontogenetic state of the kernel
CloneKeepsState(h, kernel) ==
  LET g  == GenerateId(h)
      a  == AllocGenome(g.h, [GenomeOf(h, kernel) EXCEPT
                                !.id = g.id,
                                !.generation = @ + 1,
                                !.lineage = <<GenomeOf(h, kernel).id>>,
                                !.age = 0])
  IN  [h |-> a.h, k |-> [kernel EXCEPT !.genome = a.ref]]

Clone(h, kernel) ==
  LET g  == GenerateId(h)
      a  == AllocGenome(g.h, [GenomeOf(h, kernel) EXCEPT
                                !.id = g.id,
                                !.generation = @ + 1,
                                !.lineage = <<GenomeOf(h, kernel).id>>,
                                !.age = 0])
      st == CreateInitialState(a.h)
  IN  [h |-> st.h, k |-> [kernel EXCEPT !.genome = a.ref, !.ontogeneticState = st.ref]]

----------------------------------------------------------------------------
(* Ontogenesis engine: fitness, selection, development *)

GeneticDistance(k1, k2) ==
  SeqSum([i \in 1..Len(k1.coefficients) |->
            Abs(k1.coefficients[i]
                - (IF i <= Len(k2.coefficients) THEN k2.coefficients[i] ELSE 0))])
    \div Len(k1.coefficients)

CalculateNovelty(h, kernel, population) ==
  LET others == SelectSeq(population,
                          LAMBDA k : GenomeOf(h, k).id # GenomeOf(h, kernel).id)
      distances == [i \in 1..Len(others) |-> GeneticDistance(kernel, others[i])]
  IN  IF Len(distances) = 0 THEN Scale
      ELSE Min(Scale, SeqSum(distances) \div Len(distances))

EvaluateSymmetry(h, kernel) ==
  LET genes == GenomeOf(h, kernel).genes
      found == {i \in 1..Len(genes) : genes[i].type = "symmetry"}
  IN  IF found = {} THEN 500
      ELSE genes[CHOOSE i \in found : \A j \in found : i <= j].expressionStrength

WeightedFitness(scores) ==
  (scores.grip * 4 + scores.stability * 2 + scores.efficiency * 2
     + scores.novelty + scores.symmetry) \div 10

\* calculateFitness without scores: novelty and symmetry default to 0.5
CalculateFitness(kernel) ==
  WeightedFitness([grip |-> kernel.grip.overall, stability |-> kernel.grip.stability,
                   efficiency |-> kernel.grip.efficiency, novelty |-> 500,
                   symmetry |-> 500])

EvaluateFitness(h, kernels) ==
  [rank \in 1..Len(kernels) |->
     LET kernel == kernels[rank]
         scores == [grip |-> kernel.grip.overall, stability |-> kernel.grip.stability,
                    efficiency |-> kernel.grip.efficiency,
                    novelty |-> CalculateNovelty(h, kernel, kernels),
                    symmetry |-> EvaluateSymmetry(h, kernel)]
     IN  [kernel |-> kernel, overall |-> WeightedFitness(scores), rank |-> rank - 1]]

RECURSIVE InsertByOverall(_, _)
\* insert e behind every entry that is at least as fit (the sort is stable)
InsertByOverall(e, sorted) ==
  IF sorted = <<>> THEN <<e>>
  ELSE IF Head(sorted).overall >= e.overall
       THEN <<Head(sorted)>> \o InsertByOverall(e, Tail(sorted))
       ELSE <<e>> \o sorted

RECURSIVE SortByOverall(_)
\* evaluations.sort((a, b) => b.overall - a.overall)
SortByOverall(evaluations) ==
  IF evaluations = <<>> THEN <<>>
  ELSE InsertByOverall(evaluations[Len(evaluations)],
                       SortByOverall(SubSeq(evaluations, 1, Len(evaluations) - 1)))

\* picks holds the 0-based indices drawn for the tournament
TournamentSelect(evaluations, picks) ==
  LET tournament == [i \in 1..Len(picks) |-> evaluations[picks[i] + 1]]
      Better(best, curr) == IF curr.overall > best.overall THEN curr ELSE best
  IN  Better(Better(tournament[1], tournament[2]), tournament[3])

TournamentSize == 3

\* every entry a tournament of TournamentSize draws can select
TournamentWinners(evaluations) ==
  {TournamentSelect(evaluations, picks) :
     picks \in [1..TournamentSize -> 0..(Len(evaluations) - 1)]}

MatureAge == 5

JuvenileAge == 3

SenescentAge == 20

UpdateDevelopmentStage(h, kernel) ==
  LET h1       == [h EXCEPT !.genomes[kernel.genome].age = @ + 1]
      maturity == StateOf(h1, kernel).maturity
      age      == GenomeOf(h1, kernel).age
      s        == kernel.ontogeneticState
      h2 == IF FGeq(maturity, FEightTenths) /\ age >= MatureAge
            THEN [h1 EXCEPT !.states[s].stage = "mature",
                            !.states[s].reproductiveCapability = 1000]
            ELSE IF FGeq(maturity, FHalf) /\ age >= JuvenileAge
            THEN [h1 EXCEPT !.states[s].stage = "juvenile",
                            !.states[s].reproductiveCapability = 500]
            ELSE IF age >= SenescentAge
            THEN [h1 EXCEPT !.states[s].stage = "senescent",
                            !.states[s].reproductiveCapability = 200]
            ELSE h1
  IN  IF h2.states[s].stage # h.states[s].stage
      THEN PushDevelopment(h2, kernel, "stage-transition")
      ELSE h2

RECURSIVE UpdateStages(_, _)
\* nextGeneration.forEach(k => updateDevelopmentStage(k))
UpdateStages(h, kernels) ==
  IF kernels = <<>> THEN h
  ELSE UpdateStages(UpdateDevelopmentStage(h, Head(kernels)), Tail(kernels))

CalculateDiversity(population) ==
  LET pairs == {p \in (1..Len(population)) \X (1..Len(population)) : p[1] < p[2]}
      RECURSIVE Total(_)
      Total(ps) == IF ps = {} THEN 0
                   ELSE LET p == CHOOSE q \in ps : TRUE
                        IN  GeneticDistance(population[p[1]], population[p[2]])
                            + Total(ps \ {p})
  IN  IF Len(population) < 2 THEN 0 ELSE Total(pairs) \div Cardinality(pairs)

\* 0 / 0, the average of an empty fitness list
NaN == "NaN"

\* Math.max() of an empty fitness list
NegativeInfinity == "-Infinity"

\* the KernelPopulation record both evolve and initializePopulation return
MakePopulation(generation, individuals) ==
  LET fitness == [i \in 1..Len(individuals) |-> CalculateFitness(individuals[i])]
  IN  [generation |-> generation,
       individuals |-> individuals,
       populationSize |-> Len(individuals),
       averageFitness |-> IF fitness = <<>> THEN NaN
                          ELSE SeqSum(fitness) \div Len(fitness),
       bestFitness |-> IF fitness = <<>> THEN NegativeInfinity ELSE SeqMax(fitness),
       diversity |-> CalculateDiversity(individuals)]

----------------------------------------------------------------------------
(* State *)

VARIABLES
  mem,          \* the heap of shared objects, the id generator, the operation history
                \* (the CognitiveMirrorSystem object in a mirror session)
  config,       \* the OntogenesisConfig of the session; config.evolution are the params
  mode,         \* "run": a runOntogenesis call; "direct": the caller drives the engine
  pc,           \* position in the running call
  individuals,  \* local of initializePopulation; the caller's kernels in direct mode
  population,   \* the population last built (<<>> before there is one)
  generations,  \* the list runOntogenesis is building and returns
  gen,          \* loop counter of runOntogenesis; engine calls made in direct mode
  ev,           \* locals of the running evolve call (of the monitorExecution calls
                \* in flight, in a mirror session)
  last          \* what the last completed engine call got and returned

vars == <<mem, config, mode, pc, individuals, population, generations, gen, ev, last>>

NoEvolve == [sorted |-> <<>>, elite |-> <<>>, offspring |-> <<>>, input |-> <<>>,
             before |-> EmptyHeap]

NoCall == [op |-> "none"]

\* Math.random() outcomes, per mille: the least and (nearly) the greatest
RandomDraws == {0, 999}

\* Math.floor(Math.random() * n) for the outcome r
DrawIndex(r, n) == (r * n) \div Scale

\* (Math.random() - 0.5) * 0.2 for the outcome r
DrawMutation(r) == (r - Scale \div 2) \div 5

IndexDraws(n) == {DrawIndex(r, n) : r \in RandomDraws}

MutationAmounts == {DrawMutation(r) : r \in RandomDraws}

\* orders of the consciousness kernels passed as seeds
SeedOrders == {2, 3}

DefaultOrder == 4

Rates == {0, 500, 1000}

FitnessThresholds == {600}

IterationCounts == {5, 8}

RECURSIVE GenerateSeeds(_, _)
\* the caller's generateConsciousnessKernel calls that build config.seedKernels
GenerateSeeds(h, orders) ==
  IF orders = <<>> THEN [h |-> h, ks |-> <<>>]
  ELSE LET first == GenerateConsciousnessKernel(h, Head(orders), TRUE)
           rest  == GenerateSeeds(first.h, Tail(orders))
       IN  [h |-> rest.h, ks |-> <<first.k>> \o rest.ks]

SeedLists == UNION {[1..n -> SeedOrders] : n \in 0..MaxSeeds}

\* the params of a session; a run breeds at most MaxOffspringRounds offspring
\* slots in all (slots per round times rounds)
EvolutionParameters ==
  {p \in [populationSize : 1..MaxPopulationSize,
          mutationRate : {500},
          crossoverRate : {500},
          elitismRate : Rates,
          maxGenerations : 0..MaxGenerations,
          fitnessThreshold : FitnessThresholds] :
     (p.populationSize - (p.populationSize * p.elitismRate) \div Scale) * p.maxGenerations
       <= MaxOffspringRounds}

EliteCount(params) == (params.populationSize * params.elitismRate) \div Scale

\* the params a caller passes to evolve directly; maxGenerations and
\* fitnessThreshold play no part in evolve
DirectParameters ==
  {p \in EvolutionParameters : p.maxGenerations = 1}

InitWith(m, orders, params) ==
  LET seeds == GenerateSeeds(EmptyHeap, orders)
  IN  /\ mem = seeds.h
      /\ config = [evolution |-> params, seedKernels |-> seeds.ks]
      /\ mode = m
      /\ pc = "idle"
      /\ individuals = <<>>
      /\ population = <<>>
      /\ generations = <<>>
      /\ gen = 0
      /\ ev = NoEvolve
      /\ last = NoCall

Init ==
  \/ \E orders \in SeedLists, params \in EvolutionParameters :
       InitWith("run", orders, params)
  \/ \E orders \in SeedLists, params \in DirectParameters :
       InitWith("direct", orders, params)

----------------------------------------------------------------------------
(* runOntogenesis and initializePopulation *)

RECURSIVE InitializeAll(_, _)
\* config.seedKernels.forEach(seed => individuals.push(initialize(seed)))
InitializeAll(h, seeds) ==
  IF seeds = <<>> THEN [h |-> h, ks |-> <<>>]
  ELSE LET first == Initialize(h, Head(seeds))
           rest  == InitializeAll(first.h, Tail(seeds))
       IN  [h |-> rest.h, ks |-> <<first.k>> \o rest.ks]

\* runOntogenesis is called: initializePopulation starts with the seeds
RunOntogenesis ==
  /\ pc = "idle"
  /\ mode = "run"
  /\ LET r == InitializeAll(mem, config.seedKernels)
     IN  /\ mem' = r.h
         /\ individuals' = r.ks
  /\ pc' = "fill"
  /\ UNCHANGED <<config, mode, population, generations, gen, ev, last>>

\* one round of the while loop of initializePopulation
FillSlot ==
  /\ pc = "fill"
  /\ Len(individuals) < config.evolution.populationSize
  /\ IF Len(individuals) > 0
     THEN \E p \in 1..Len(individuals), mutation \in MutationAmounts :
            \E idx \in IndexDraws(Len(individuals[p].coefficients)) :
              LET r == Mutate(mem, individuals[p], idx, mutation)
              IN  /\ mem' = r.h
                  /\ individuals' = Append(individuals, r.k)
     ELSE LET g == GenerateConsciousnessKernel(mem, DefaultOrder, TRUE)
              r == Initialize(g.h, g.k)
          IN  /\ mem' = r.h
              /\ individuals' = Append(individuals, r.k)
  /\ UNCHANGED <<config, mode, pc, population, generations, gen, ev, last>>

\* initializePopulation returns; runOntogenesis stores generation 0 and enters
\* its for loop
FillDone ==
  /\ pc = "fill"
  /\ ~(Len(individuals) < config.evolution.populationSize)
  /\ population' = MakePopulation(0, individuals)
  /\ generations' = <<population'>>
  /\ gen' = 0
  /\ pc' = IF 0 < config.evolution.maxGenerations THEN "evolve" ELSE "done"
  /\ individuals' = <<>>
  /\ UNCHANGED <<mem, config, mode, ev, last>>

\* runOntogenesis without the termination check of lines 240-243
RunCheckNoBreak ==
  /\ pc = "returned"
  /\ mode = "run"
  /\ generations' = Append(generations, population)
  /\ gen' = gen + 1
  /\ pc' = IF gen + 1 < config.evolution.maxGenerations THEN "evolve" ELSE "done"
  /\ UNCHANGED <<mem, config, mode, individuals, population, ev, last>>

\* runOntogenesis gets the evolved population back
RunCheck ==
  /\ pc = "returned"
  /\ mode = "run"
  /\ generations' = Append(generations, population)
  /\ IF population.bestFitness >= config.evolution.fitnessThreshold
     THEN /\ pc' = "done"
          /\ gen' = gen
     ELSE /\ gen' = gen + 1
          /\ pc' = IF gen + 1 < config.evolution.maxGenerations THEN "evolve" ELSE "done"
  /\ UNCHANGED <<mem, config, mode, individuals, population, ev, last>>

----------------------------------------------------------------------------
(* evolve *)

\* evolve is entered: fitness evaluation, sort and elite selection
EvolveBegin ==
  /\ pc = "evolve"
  /\ LET sorted == SortByOverall(EvaluateFitness(mem, population.individuals))
         elite  == Slice(sorted, 0, EliteCount(config.evolution))
     IN  ev' = [sorted |-> sorted,
                elite |-> [i \in 1..Len(elite) |-> elite[i].kernel],
                offspring |-> <<>>,
                input |-> population,
                before |-> mem]
  /\ pc' = "offspring"
  /\ UNCHANGED <<mem, config, mode, individuals, population, generations, gen, last>>

\* one round of the while loop of evolve
EvolveOffspring ==
  /\ pc = "offspring"
  /\ Len(ev.offspring) < config.evolution.populationSize - EliteCount(config.evolution)
  /\ \E parent1 \in TournamentWinners(ev.sorted), parent2 \in TournamentWinners(ev.sorted),
        r1 \in RandomDraws, r2 \in RandomDraws :
       LET doCross  == r1 < config.evolution.crossoverRate
           doMutate == r2 < config.evolution.mutationRate
       IN  \E point \in IF doCross THEN IndexDraws(Len(parent1.kernel.coefficients))
                                    ELSE {0} :
             LET bred  == IF doCross
                          THEN Crossover(mem, parent1.kernel, parent2.kernel, point)
                          ELSE LET c == Clone(mem, parent1.kernel)
                               IN  [h |-> c.h, ks |-> <<c.k>>]
                 grown == ev.offspring \o bred.ks
                 newest == grown[Len(grown)]
             IN  IF doMutate
                 THEN \E idx \in IndexDraws(Len(newest.coefficients)),
                         mutation \in MutationAmounts :
                        LET m == Mutate(bred.h, newest, idx, mutation)
                        IN  /\ mem' = m.h
                            /\ ev' = [ev EXCEPT !.offspring =
                                        [grown EXCEPT ![Len(grown)] = m.k]]
                 ELSE /\ mem' = bred.h
                      /\ ev' = [ev EXCEPT !.offspring = grown]
  /\ UNCHANGED <<config, mode, pc, individuals, population, generations, gen, last>>

\* a round of the while loop of evolve on an empty population: tournamentSelect
\* draws index 0 of an empty list three times, and its reduce reads .overall
\* of undefined, which raises a TypeError that evolve does not catch
EvolveRaise ==
  /\ pc = "offspring"
  /\ Len(ev.offspring) < config.evolution.populationSize - EliteCount(config.evolution)
  /\ ev.sorted = <<>>
  /\ pc' = "raised"
  /\ last' = [op |-> "evolveRaised", error |-> "TypeError", input |-> ev.input,
              before |-> ev.before, after |-> mem]
  /\ ev' = NoEvolve
  /\ UNCHANGED <<mem, config, mode, individuals, population, generations, gen>>

\* the rest of evolve with line 203 combining the offspring before the elite
EvolveFinishOffspringFirst ==
  /\ pc = "offspring"
  /\ ~(Len(ev.offspring) < config.evolution.populationSize - EliteCount(config.evolution))
  /\ LET nextGeneration == Slice(ev.offspring \o ev.elite, 0,
                                 config.evolution.populationSize)
         result == MakePopulation(ev.input.generation + 1, nextGeneration)
     IN  /\ mem' = UpdateStages(mem, nextGeneration)
         /\ population' = result
         /\ last' = [op |-> "evolve", input |-> ev.input, output |-> result,
                     elite |-> ev.elite, before |-> ev.before,
                     after |-> UpdateStages(mem, nextGeneration)]
  /\ ev' = NoEvolve
  /\ pc' = IF mode = "run" THEN "returned" ELSE "direct"
  /\ gen' = IF mode = "run" THEN gen ELSE gen + 1
  /\ UNCHANGED <<config, mode, individuals, generations>>

\* the rest of evolve after the loop, and the return to the caller
EvolveFinish ==
  /\ pc = "offspring"
  /\ ~(Len(ev.offspring) < config.evolution.populationSize - EliteCount(config.evolution))
  /\ LET nextGeneration == Slice(ev.elite \o ev.offspring, 0,
                                 config.evolution.populationSize)
         result == MakePopulation(ev.input.generation + 1, nextGeneration)
     IN  /\ mem' = UpdateStages(mem, nextGeneration)
         /\ population' = result
         /\ last' = [op |-> "evolve", input |-> ev.input, output |-> result,
                     elite |-> ev.elite, before |-> ev.before,
                     after |-> UpdateStages(mem, nextGeneration)]
  /\ ev' = NoEvolve
  /\ pc' = IF mode = "run" THEN "returned" ELSE "direct"
  /\ gen' = IF mode = "run" THEN gen ELSE gen + 1
  /\ UNCHANGED <<config, mode, individuals, generations>>

----------------------------------------------------------------------------
(* The engine driven by a caller, as the tests and examples drive it *)

\* the caller initializes its seed kernels and writes a population literal
DirectPopulation ==
  /\ pc = "idle"
  /\ mode = "direct"
  /\ LET r == InitializeAll(mem, config.seedKernels)
     IN  /\ mem' = r.h
         /\ population' = [generation |-> 0, individuals |-> r.ks,
                           populationSize |-> Len(r.ks), averageFitness |-> 500,
                           bestFitness |-> 500, diversity |-> 0]
  /\ pc' = "direct"
  /\ UNCHANGED <<config, mode, individuals, generations, gen, ev, last>>

\* the caller passes its population to evolve, as one of at most calls
\* engine calls
DirectEvolve(calls) ==
  /\ pc = "direct"
  /\ gen < calls
  /\ pc' = "evolve"
  /\ UNCHANGED <<mem, config, mode, individuals, population, generations, gen, ev, last>>

\* the caller goes on with the kernel a call returned in the place of the
\* kernel it passed in
Keep(i, kernel) == [population EXCEPT !.individuals[i] = kernel]

\* the caller calls selfGenerate on one of its kernels, as one of at most calls
\* engine calls
SelfGenerateCall(calls) ==
  /\ pc = "direct"
  /\ gen < calls
  /\ \E i \in 1..Len(population.individuals) :
       LET parent == population.individuals[i]
           r == SelfGenerate(mem, parent)
       IN  /\ mem' = r.h
           /\ population' = Keep(i, r.k)
           /\ last' = [op |-> "selfGenerate", input |-> parent, output |-> r.k,
                       before |-> mem, after |-> r.h]
  /\ gen' = gen + 1
  /\ UNCHANGED <<config, mode, pc, individuals, generations, ev>>

\* the caller calls selfOptimize on one of its kernels: one of at most calls
\* engine calls, and one of at most operations recorded operations; moved says
\* whether the optimizer took steps
SelfOptimizeCall(calls, operations) ==
  /\ pc = "direct"
  /\ gen < calls
  /\ Len(mem.operationHistory) < operations
  /\ \E i \in 1..Len(population.individuals), iterations \in IterationCounts,
        moved \in BOOLEAN :
       LET kernel == population.individuals[i]
           r == SelfOptimize(mem, kernel, iterations, moved)
       IN  /\ mem' = r.h
           /\ population' = Keep(i, r.k)
           /\ last' = [op |-> "selfOptimize", input |-> kernel, output |-> r.k,
                       iterations |-> iterations, moved |-> moved,
                       before |-> mem, after |-> r.h]
  /\ gen' = gen + 1
  /\ UNCHANGED <<config, mode, pc, individuals, generations, ev>>

\* selfReproduce(parent1, parent2, method); draws holds the Math.random()
\* outcomes of the method: for the crossover point, and for the index and the
\* amount of a mutation (the two mutations draw the same outcomes)
SelfReproduce(h, parent1, parent2, method, draws) ==
  CASE method = "crossover" ->
         Crossover(h, parent1, parent2,
                   DrawIndex(draws.point, Len(parent1.coefficients)))
    [] method = "mutation" ->
         LET m1 == Mutate(h, parent1, DrawIndex(draws.idx, Len(parent1.coefficients)),
                          DrawMutation(draws.amount))
             m2 == Mutate(m1.h, parent2, DrawIndex(draws.idx, Len(parent2.coefficients)),
                          DrawMutation(draws.amount))
         IN  [h |-> m2.h, ks |-> <<m1.k, m2.k>>]
    [] OTHER ->
         LET c == Clone(h, parent1)
         IN  [h |-> c.h, ks |-> <<c.k>>]

ReproduceDraws == [point : RandomDraws, idx : RandomDraws, amount : RandomDraws]

\* the caller calls selfReproduce on two of its kernels and looks at the
\* offspring
SelfReproduceCall ==
  /\ pc = "direct"
  /\ gen < MaxCalls
  /\ \E i \in 1..Len(population.individuals), j \in 1..Len(population.individuals),
        method \in {"crossover", "mutation", "cloning"} :
       LET parent1 == population.individuals[i]
           parent2 == population.individuals[j]
       IN  \E draws \in ReproduceDraws :
             LET r == SelfReproduce(mem, parent1, parent2, method, draws)
             IN  /\ mem' = r.h
                 /\ last' = [op |-> "selfReproduce", method |-> method,
                             parents |-> <<parent1, parent2>>, offspring |-> r.ks,
                             before |-> mem, after |-> r.h]
  /\ gen' = gen + 1
  /\ UNCHANGED <<config, mode, pc, individuals, population, generations, ev>>

----------------------------------------------------------------------------
(* The kernel generator driven by a caller *)

DomainTypes == {"physics", "chemistry", "biology", "computing", "consciousness"}

TreeTypes == {"hamiltonian", "reaction", "metabolic", "recursion", "echo"}

Goals == {"speed", "accuracy", "stability", "balanced"}

\* orders a caller declares: below, at and above the limits of validateDomain
DomainOrders == {0, 1, 2, MaxDomainOrder, MaxDomainOrder + 1}

\* the domain declarations a caller passes to generate, "economics" standing
\* for a type that is not a domain type
Domains == [type : DomainTypes \cup {"economics"}, order : DomainOrders,
            treeType : TreeTypes]

PresetOrders == {1, 2, 3}

\* generate(context): the error of line 34, or the kernel
GenerateCall ==
  /\ pc = "generator"
  /\ \E domain \in Domains, goal \in Goals, moved \in BOOLEAN :
       IF ~ValidateDomain(domain)
       THEN /\ mem' = mem
            /\ pc' = "raised"
            /\ last' = [op |-> "generate", via |-> "generate", domain |-> domain,
                        goal |-> goal, raised |-> TRUE,
                        error |-> "Invalid domain specification", output |-> <<>>]
       ELSE LET r == Generate(mem, domain, goal, moved)
            IN  /\ mem' = r.h
                /\ pc' = "generated"
                /\ last' = [op |-> "generate", via |-> "generate", domain |-> domain,
                            goal |-> goal, raised |-> FALSE, error |-> "",
                            output |-> <<r.k>>]
  /\ UNCHANGED <<config, mode, individuals, population, generations, gen, ev>>

\* one of the five presets is called with an order
PresetCall ==
  /\ pc = "generator"
  /\ \E type \in DomainTypes, order \in PresetOrders, moved \in BOOLEAN :
       LET r == GeneratePreset(mem, type, order, moved)
       IN  /\ mem' = r.h
           /\ last' = [op |-> "generate", via |-> "preset", domain |-> r.k.domain,
                       goal |-> "", raised |-> FALSE, error |-> "",
                       output |-> <<r.k>>]
  /\ pc' = "generated"
  /\ UNCHANGED <<config, mode, individuals, population, generations, gen, ev>>

\* the caller passes the kernel it has just got to verify
VerifyCall ==
  /\ pc = "generated"
  /\ last' = [op |-> "verify", via |-> last.via, input |-> last.output[1],
              result |-> Verify(mem, last.output[1])]
  /\ pc' = "verified"
  /\ UNCHANGED <<mem, config, mode, individuals, population, generations, gen, ev>>

\* BSeriesEngine.generateRungeKutta(order)
RungeKuttaCall ==
  /\ pc = "generator"
  /\ \E order \in 1..MaxRungeKuttaOrder :
       last' = [op |-> "generateRungeKutta", order |-> order,
                output |-> GenerateRungeKutta(order)]
  /\ pc' = "expanded"
  /\ UNCHANGED <<mem, config, mode, individuals, population, generations, gen, ev>>

\* the caller passes the expansion it has just got to verifyOrderConditions
VerifyOrderConditionsCall ==
  /\ pc = "expanded"
  /\ last' = [op |-> "verifyOrderConditions", order |-> last.order,
              input |-> last.output, result |-> VerifyOrderConditions(last.output)]
  /\ pc' = "verified"
  /\ UNCHANGED <<mem, config, mode, individuals, population, generations, gen, ev>>

\* ElementaryDifferentialsGenerator.generate(order)
TreesCall ==
  /\ pc = "generator"
  /\ \E order \in 1..MaxTreeOrder :
       last' = [op |-> "generateTrees", order |-> order, output |-> GenerateTrees(order)]
  /\ pc' = "trees"
  /\ UNCHANGED <<mem, config, mode, individuals, population, generations, gen, ev>>

\* ElementaryDifferentialsGenerator.count(order), for the order just generated
CountCall ==
  /\ pc = "trees"
  /\ last' = [op |-> "count", order |-> last.order, trees |-> last.output,
              result |-> Count(last.order)]
  /\ pc' = "counted"
  /\ UNCHANGED <<mem, config, mode, individuals, population, generations, gen, ev>>

\* UniversalKernelGenerator.applyOperator(operator, k, k).result on a kernel the
\* caller is preparing as a seed; the caller goes on with the result.  At most
\* MaxCompositions compositions, of kernels with coefficients up to
\* MaxCoefficient (in fixed point)
ApplyOperatorCall ==
  /\ pc = "idle"
  /\ Len(mem.bseries) < Len(config.seedKernels) + MaxCompositions
  /\ \E i \in 1..Len(config.seedKernels), operator \in {"chain", "product", "quotient"} :
       LET kernel == config.seedKernels[i]
           r == ApplyOperator(mem, operator, kernel, kernel)
       IN  /\ \A c \in 1..Len(kernel.coefficients) :
                Abs(kernel.coefficients[c]) <= MaxCoefficient
           /\ mem' = r.h
           /\ config' = [config EXCEPT !.seedKernels[i] = r.k]
           /\ last' = [op |-> "applyOperator", operator |-> operator,
                       input |-> kernel, output |-> r.k]
  /\ UNCHANGED <<mode, pc, individuals, population, generations, gen, ev>>

----------------------------------------------------------------------------
(* The operation history over a long session *)

\* In this session last.since lists the types of the calls that recorded an
\* operation since the last reset.  The caller makes at most MaxHistoryCalls
\* calls on its kernel; selfOptimize calls are among the first MaxVariedCalls.

\* The caller drops what a call returns: the objects that the call allocated
\* are garbage, and the heap after keeps the objects there were before, with
\* what the call wrote to them
Forget(before, after) ==
  [after EXCEPT !.genomes = SubSeq(@, 1, Len(before.genomes)),
                !.states = SubSeq(@, 1, Len(before.states)),
                !.bseries = SubSeq(@, 1, Len(before.bseries)),
                !.logs = SubSeq(@, 1, Len(before.logs))]

\* selfGenerate(onto), the offspring dropped
HistorySelfGenerate ==
  /\ pc = "direct"
  /\ gen < MaxHistoryCalls
  /\ LET r == SelfGenerate(mem, population.individuals[1])
     IN  mem' = Forget(mem, r.h)
  /\ last' = [op |-> "selfGenerate", since |-> Append(last.since, "self-generate")]
  /\ gen' = gen + 1
  /\ UNCHANGED <<config, mode, pc, individuals, population, generations, ev>>

\* selfOptimize(onto, 1), the result dropped
HistorySelfOptimize ==
  /\ pc = "direct"
  /\ gen < MaxVariedCalls
  /\ \E moved \in BOOLEAN :
       LET r == SelfOptimize(mem, population.individuals[1], 1, moved)
       IN  mem' = Forget(mem, r.h)
  /\ last' = [op |-> "selfOptimize", since |-> Append(last.since, "self-optimize")]
  /\ gen' = gen + 1
  /\ UNCHANGED <<config, mode, pc, individuals, population, generations, ev>>

\* OntogenesisEngine.reset(), early in the session or on a full history
HistoryReset ==
  /\ pc = "direct"
  /\ gen <= MaxVariedCalls \/ Len(mem.operationHistory) = HistoryLimit
  /\ mem' = [mem EXCEPT !.operationHistory = <<>>]
  /\ last' = [op |-> "reset", since |-> <<>>]
  /\ UNCHANGED <<config, mode, pc, individuals, population, generations, gen, ev>>

----------------------------------------------------------------------------
(* CognitiveMirrorSystem.monitorExecution *)

\* In this session mem is the CognitiveMirrorSystem object, with its fields
\* executionHistory and introspectionLevel; ev lists the monitorExecution calls
\* that are awaiting their fn(), and gen counts the calls that have completed.
\* An ExecutionState is kept as its operation and after.introspectionLevel.
\* At most MaxMirrorCalls calls are made, at most MaxInFlight at a time; a
\* monitored function throws among the first MaxVariedCalls calls or once the
\* history holds ExecutionLimit entries.

ExecutionLimit == 100

MirrorOperations == {"query"}

\* monitorExecution is called: captureStateBefore, then await fn()
MonitorBegin ==
  /\ pc = "mirror"
  /\ Len(ev) < MaxInFlight
  /\ gen + Len(ev) < MaxMirrorCalls
  /\ \E operation \in MirrorOperations :
       ev' = Append(ev, [operation |-> operation])
  /\ UNCHANGED <<mem, config, mode, pc, individuals, population, generations, gen, last>>

\* the in-flight calls but call i
Settled(i) == SubSeq(ev, 1, i - 1) \o SubSeq(ev, i + 1, Len(ev))

\* fn() of a call has resolved: the try branch
MonitorReturn ==
  /\ pc = "mirror"
  /\ \E i \in 1..Len(ev) :
       LET level  == mem.introspectionLevel + 1
           executionState == [operation |-> ev[i].operation, introspectionLevel |-> level]
           pushed == Append(mem.executionHistory, executionState)
       IN  /\ mem' = [executionHistory |->
                        IF Len(pushed) > ExecutionLimit THEN Tail(pushed) ELSE pushed,
                      introspectionLevel |-> level]
           /\ last' = [op |-> "monitorExecution", raised |-> FALSE,
                       state |-> executionState]
           /\ ev' = Settled(i)
  /\ gen' = gen + 1
  /\ UNCHANGED <<config, mode, pc, individuals, population, generations>>

\* fn() of a call has rejected: the catch branch, which rethrows
MonitorThrow ==
  /\ pc = "mirror"
  /\ gen < MaxVariedCalls \/ Len(mem.executionHistory) >= ExecutionLimit
  /\ \E i \in 1..Len(ev) :
       LET level  == mem.introspectionLevel + 1
           executionState == [operation |-> ev[i].operation \o " (ERROR)",
                              introspectionLevel |-> level]
       IN  /\ mem' = [executionHistory |-> Append(mem.executionHistory, executionState),
                      introspectionLevel |-> level]
           /\ last' = [op |-> "monitorExecution", raised |-> TRUE,
                       state |-> executionState]
           /\ ev' = Settled(i)
  /\ gen' = gen + 1
  /\ UNCHANGED <<config, mode, pc, individuals, population, generations>>

----------------------------------------------------------------------------
(* Specifications *)

\* a runOntogenesis call, or a caller that builds a population and evolves it
Next ==
  \/ RunOntogenesis
  \/ FillSlot
  \/ FillDone
  \/ RunCheck
  \/ EvolveBegin
  \/ EvolveOffspring
  \/ EvolveRaise
  \/ EvolveFinish
  \/ DirectPopulation
  \/ DirectEvolve(MaxDirectRounds)

Spec == Init /\ [][Next]_vars

\* a caller that applies the self-* operations to its kernels and evolves them
OpsParameters ==
  {p \in DirectParameters : p.elitismRate = Scale \div 2}

InitOps ==
  \E orders \in SeedLists \ {<<>>}, params \in OpsParameters :
    InitWith("direct", orders, params)

NextOps ==
  \/ DirectPopulation
  \/ SelfGenerateCall(MaxCalls)
  \/ SelfOptimizeCall(MaxCalls, MaxCalls)
  \/ SelfReproduceCall
  \/ DirectEvolve(MaxCalls)
  \/ EvolveBegin
  \/ EvolveOffspring
  \/ EvolveFinish

SpecOps == InitOps /\ [][NextOps]_vars

\* the life of one kernel: a caller keeps a single kernel through many evolve
\* rounds (populationSize 1, the whole population elite) and may optimize it
LifeParameters ==
  {p \in DirectParameters : p.populationSize = 1 /\ p.elitismRate = Scale}

InitLife ==
  \E order \in SeedOrders, params \in LifeParameters :
    InitWith("direct", <<order>>, params)

NextLife ==
  \/ DirectPopulation
  \/ SelfOptimizeCall(MaxLifeCalls, MaxLifeOperations)
  \/ DirectEvolve(MaxLifeCalls)
  \/ EvolveBegin
  \/ EvolveFinish

SpecLife == InitLife /\ [][NextLife]_vars

\* a caller of the kernel generator, the B-series engine and the tree
\* generator; none of them keeps state between calls
InitGenerator ==
  /\ mem = EmptyHeap
  /\ config = [evolution |-> <<>>, seedKernels |-> <<>>]
  /\ mode = "generator"
  /\ pc = "generator"
  /\ individuals = <<>>
  /\ population = <<>>
  /\ generations = <<>>
  /\ gen = 0
  /\ ev = NoEvolve
  /\ last = NoCall

NextGenerator ==
  \/ GenerateCall
  \/ PresetCall
  \/ VerifyCall
  \/ RungeKuttaCall
  \/ VerifyOrderConditionsCall
  \/ TreesCall
  \/ CountCall

SpecGenerator == InitGenerator /\ [][NextGenerator]_vars

\* a caller that composes its seed kernel with itself some times and passes it
\* to runOntogenesis, which fills the population with mutants of it
GripParameters ==
  {p \in EvolutionParameters :
     /\ p.maxGenerations = 0
     /\ p.populationSize = MaxPopulationSize
     /\ p.elitismRate = Scale \div 2}

InitGrip ==
  \E order \in SeedOrders, params \in GripParameters :
    InitWith("run", <<order>>, params)

NextGrip ==
  \/ ApplyOperatorCall
  \/ RunOntogenesis
  \/ FillSlot
  \/ FillDone

SpecGrip == InitGrip /\ [][NextGrip]_vars

\* a caller that keeps one kernel and calls selfGenerate, selfOptimize and
\* reset on the engine through a long session
InitHistory ==
  LET seeds == GenerateSeeds(EmptyHeap, <<DefaultOrder>>)
  IN  /\ mem = seeds.h
      /\ config = [evolution |-> CHOOSE p \in LifeParameters : TRUE,
                   seedKernels |-> seeds.ks]
      /\ mode = "direct"
      /\ pc = "idle"
      /\ individuals = <<>>
      /\ population = <<>>
      /\ generations = <<>>
      /\ gen = 0
      /\ ev = NoEvolve
      /\ last = [op |-> "none", since |-> <<>>]

NextHistory ==
  \/ DirectPopulation
  \/ HistorySelfGenerate
  \/ HistorySelfOptimize
  \/ HistoryReset

SpecHistory == InitHistory /\ [][NextHistory]_vars

\* a caller that optimizes one kernel up to maturity and generates from it
NextMature ==
  \/ DirectPopulation
  \/ SelfOptimizeCall(MaxMatureCalls, MaxMatureCalls)
  \/ SelfGenerateCall(MaxMatureCalls)

SpecMature == InitLife /\ [][NextMature]_vars

\* a CognitiveMirrorSystem after construction and the callers of its
\* monitorExecution
InitMirror ==
  /\ mem = [executionHistory |-> <<>>, introspectionLevel |-> 0]
  /\ config = [evolution |-> <<>>, seedKernels |-> <<>>]
  /\ mode = "mirror"
  /\ pc = "mirror"
  /\ individuals = <<>>
  /\ population = <<>>
  /\ generations = <<>>
  /\ gen = 0
  /\ ev = <<>>
  /\ last = NoCall

NextMirror ==
  \/ MonitorBegin
  \/ MonitorReturn
  \/ MonitorThrow

SpecMirror == InitMirror /\ [][NextMirror]_vars

----------------------------------------------------------------------------
(* Properties *)

\* every kernel the session holds or the last call returned
KernelsInHand ==
  {config.seedKernels[i] : i \in 1..Len(config.seedKernels)}
    \cup (IF population = <<>> THEN {}
          ELSE {population.individuals[i] : i \in 1..Len(population.individuals)})
    \cup {ev.offspring[i] : i \in 1..Len(ev.offspring)}
    \cup (CASE last.op = "evolve" ->
                 {last.output.individuals[i] : i \in 1..Len(last.output.individuals)}
            [] last.op = "selfReproduce" ->
                 {last.offspring[i] : i \in 1..Len(last.offspring)}
            [] last.op \in {"selfGenerate", "selfOptimize"} -> {last.output}
            [] OTHER -> {})

DistinctIds(h, kernels) ==
  \A i \in 1..Len(kernels), j \in 1..Len(kernels) :
    i < j => GenomeOf(h, kernels[i]).id # GenomeOf(h, kernels[j]).id

\* the age a genome had when the last evolve call was entered (0 for a genome
\* the call created)
AgeBefore(ref) ==
  IF ref <= Len(last.before.genomes) THEN last.before.genomes[ref].age ELSE 0

StageRank(stage) ==
  CASE stage = "embryonic" -> 0
    [] stage = "juvenile" -> 1
    [] stage = "mature" -> 2
    [] OTHER -> 3

\* C1, as claimed: the population evolve returns has exactly
\* params.populationSize individuals and a populationSize field equal to that
\* number, for every non-empty input population.
C1_EvolveReturnsPopulationSize ==
  (last.op = "evolve" /\ Len(last.input.individuals) >= 1) =>
    /\ Len(last.output.individuals) = config.evolution.populationSize
    /\ last.output.populationSize = config.evolution.populationSize

\* C1: evolve has returned fewer individuals than params.populationSize,
\* because the input had fewer individuals than the elite count
C1_ShortPopulation ==
  /\ last.op = "evolve"
  /\ Len(last.input.individuals) >= 1
  /\ Len(last.input.individuals) < EliteCount(config.evolution)
  /\ Len(last.output.individuals) < config.evolution.populationSize

\* C2, as claimed: the development stage of an individual never moves back in
\* the order embryonic < juvenile < mature < senescent, in any step.
C2_StageForwardOnly ==
  [][\A s \in 1..Len(mem.states) :
       StageRank(mem'.states[s].stage) >= StageRank(mem.states[s].stage)]_vars

\* C2: a kernel that was senescent is juvenile again
C2_SenescentRegressed ==
  /\ last.op = "evolve"
  /\ \E s \in 1..Len(last.before.states) :
       /\ last.before.states[s].stage = "senescent"
       /\ last.after.states[s].stage = "juvenile"

\* C3, as claimed: an evolve round raises the age of every individual of the
\* population it returns by exactly 1.
C3_AgeRisesByOne ==
  last.op = "evolve" =>
    \A i \in 1..Len(last.output.individuals) :
      LET ref == last.output.individuals[i].genome
      IN  last.after.genomes[ref].age = AgeBefore(ref) + 1

\* C3: a generation-0 slot was filled by mutating a seed, and one evolve
\* round has aged the two individuals by 2
C3_SharedGenomeAgedTwice ==
  /\ mode = "run"
  /\ last.op = "evolve"
  /\ \E i \in 1..Len(last.output.individuals), j \in 1..Len(last.output.individuals) :
       /\ i # j
       /\ last.output.individuals[i].genome = last.output.individuals[j].genome
       /\ last.after.genomes[last.output.individuals[i].genome].age
            = AgeBefore(last.output.individuals[i].genome) + 2

\* C4, as claimed: no two individuals of a population returned by
\* runOntogenesis (generation 0 included) or by evolve have the same genome id.
C4_GenomeIdsUnique ==
  /\ (mode = "run" /\ pc = "done") =>
       \A g \in 1..Len(generations) : DistinctIds(mem, generations[g].individuals)
  /\ last.op = "evolve" => DistinctIds(mem, last.output.individuals)

\* C4: generation 0 of a run holds two individuals with one genome id
C4_DuplicateIdInGenerationZero ==
  /\ mode = "run"
  /\ pc = "done"
  /\ Len(config.seedKernels) < config.evolution.populationSize
  /\ ~DistinctIds(mem, generations[1].individuals)

\* C5, as claimed: every kernel that generate, the presets, applyOperator,
\* selfGenerate, selfOptimize, selfReproduce and evolve produce has as many
\* coefficients as trees.
C5_CoefficientsParallelToTrees ==
  \A k \in KernelsInHand : Len(k.coefficients) = Len(k.trees)

\* C5: a crossover of two parents of different orders has returned an
\* offspring with fewer coefficients than trees
C5_CrossoverOffspringShort ==
  /\ last.op = "selfReproduce"
  /\ last.method = "crossover"
  /\ last.parents[1].order # last.parents[2].order
  /\ \E i \in 1..Len(last.offspring) :
       Len(last.offspring[i].coefficients) < Len(last.offspring[i].trees)

\* the generation with index i of the list runOntogenesis is building reaches
\* the fitness threshold
Reaches(i) == generations[i + 1].bestFitness >= config.evolution.fitnessThreshold

\* index of the last generation of the list
LastIndex == Len(generations) - 1

\* the list holds generations 0, 1, 2, ... in order, at most maxGenerations + 1
InOrder ==
  /\ \A i \in 1..Len(generations) : generations[i].generation = i - 1
  /\ LastIndex <= config.evolution.maxGenerations

\* C6, as claimed: runOntogenesis returns generations 0..k in order, k the
\* first index, generation 0 included, whose bestFitness reaches the
\* threshold, or maxGenerations if none does; no generation before the last
\* one reaches the threshold.
C6_StopsAtFirstReachingFromZero ==
  (mode = "run" /\ pc = "done") =>
    /\ InOrder
    /\ IF \E i \in 0..LastIndex : Reaches(i)
       THEN Reaches(LastIndex) /\ \A i \in 0..(LastIndex - 1) : ~Reaches(i)
       ELSE LastIndex = config.evolution.maxGenerations

\* C6, amended: runOntogenesis returns generations 0..k in order, k the first
\* index from 1 on whose bestFitness reaches the threshold, or maxGenerations
\* if none of the generations 1..maxGenerations does; generation 0 is never
\* checked, and no generation from 1 on before the last reaches the threshold.
C6_StopsAtFirstReachingAfterZero ==
  (mode = "run" /\ pc = "done") =>
    /\ InOrder
    /\ IF \E i \in 1..LastIndex : Reaches(i)
       THEN Reaches(LastIndex) /\ \A i \in 1..(LastIndex - 1) : ~Reaches(i)
       ELSE LastIndex = config.evolution.maxGenerations

\* C6: generation 0 reached the threshold and runOntogenesis evolved it anyway
C6_EvolvedPastGenerationZero ==
  /\ mode = "run"
  /\ pc = "done"
  /\ Reaches(0)
  /\ LastIndex >= 1

\* C7, as claimed: every population of the list runOntogenesis returns,
\* generation 0 included, has exactly config.evolution.populationSize
\* individuals, for any number of seed kernels.
C7_EveryGenerationHasPopulationSize ==
  (mode = "run" /\ pc = "done") =>
    \A g \in 1..Len(generations) :
      Len(generations[g].individuals) = config.evolution.populationSize

\* C7: more seeds than populationSize were passed and generation 0 of the
\* returned list holds them all
C7_OversizeGenerationZero ==
  /\ mode = "run"
  /\ pc = "done"
  /\ Len(config.seedKernels) > config.evolution.populationSize
  /\ Len(generations[1].individuals) = Len(config.seedKernels)

GenomeWithId(h, id) ==
  h.genomes[CHOOSE g \in 1..Len(h.genomes) : h.genomes[g].id = id]

RECURSIVE SingleLine(_, _)
\* the genome and its ancestors, as far as each has exactly one parent
SingleLine(h, genome) ==
  IF Len(genome.lineage) = 1
  THEN <<genome>> \o SingleLine(h, GenomeWithId(h, genome.lineage[1]))
  ELSE <<genome>>

\* C8: the child of selfGenerate is one generation after its parent, has the
\* parent's id as its whole lineage and an id of its own; a chain of n
\* selfGenerate calls from a generation-0 kernel has generations 0, 1, ..., n.
C8_SelfGenerateLineage ==
  last.op = "selfGenerate" =>
    LET parent == last.after.genomes[last.input.genome]
        child  == last.after.genomes[last.output.genome]
        line   == SingleLine(last.after, child)
        first  == line[Len(line)]
    IN  /\ child.generation = parent.generation + 1
        /\ child.lineage = <<parent.id>>
        /\ child.id # parent.id
        /\ (first.lineage = <<>> /\ first.generation = 0) =>
             \A i \in 1..Len(line) : line[i].generation = Len(line) - i

\* C8: selfGenerate was called on the child of a selfGenerate call on a
\* generation-0 kernel
C8_ChainOfTwo ==
  /\ last.op = "selfGenerate"
  /\ mem.operationHistory = <<"self-generate", "self-generate">>
  /\ last.after.genomes[last.output.genome].generation = 2
  /\ Len(SingleLine(last.after, last.after.genomes[last.output.genome])) = 3

\* maturity of the kernel passed to the last selfOptimize call, before the call
InputMaturityBefore == last.before.states[last.input.ontogeneticState].maturity

\* the same, read after the call has returned
InputMaturityAfter == last.after.states[last.input.ontogeneticState].maturity

\* maturity of the kernel the last selfOptimize call returned
OutputMaturity == last.after.states[last.output.ontogeneticState].maturity

\* C9, as claimed: after selfOptimize(k, iterations) with maturity below 1 and
\* iterations >= 1, the result's maturity is strictly greater than k's, both
\* read after the call.
C9_ResultMaturityAboveInput ==
  (last.op = "selfOptimize" /\ last.iterations >= 1 /\ FLess(InputMaturityBefore, FOne)) =>
    FLess(InputMaturityAfter, OutputMaturity)

\* C9: the input kernel's maturity has been raised together with the result's
C9_InputRaisedWithResult ==
  /\ last.op = "selfOptimize"
  /\ FLess(InputMaturityBefore, FOne)
  /\ FLess(InputMaturityBefore, InputMaturityAfter)
  /\ InputMaturityAfter = OutputMaturity

\* every maturity is within [0, 1]
MaturityInRange ==
  \A s \in 1..Len(mem.states) :
    FGeq(mem.states[s].maturity, FZero) /\ FGeq(FOne, mem.states[s].maturity)

\* the last call left the maturity of every state that existed alone, the
\* states in touched excepted
MaturityKept(touched) ==
  \A s \in (1..Len(last.before.states)) \ touched :
    last.after.states[s].maturity = last.before.states[s].maturity

\* a and b are at most units * 2^-56 apart
FWithin(a, b, units) ==
  /\ Abs(a[1] - b[1]) <= 1
  /\ FDistance(a, b) <= units

\* C10, as claimed: maturity stays within [0, 1]; selfGenerate, selfReproduce
\* and evolve leave the maturity of every existing individual alone;
\* selfOptimize(k, n) returns maturity min(1.0, k.maturity + 0.1 * n).
C10_MaturityClosedForm ==
  /\ MaturityInRange
  /\ last.op \in {"selfGenerate", "selfReproduce", "evolve"} => MaturityKept({})
  /\ last.op = "selfOptimize" =>
       /\ MaturityKept({last.input.ontogeneticState})
       /\ OutputMaturity
            = FMin(FOne, FAdd(InputMaturityBefore, FTimes(FTenth, last.iterations)))

\* C10, amended: maturity stays within [0, 1]; selfGenerate, selfReproduce and
\* evolve leave the maturity of every existing individual alone;
\* selfOptimize(k, n) makes n double additions of 0.1, each capped at 1.0: its
\* result is never below k.maturity and within 2^-52 of
\* min(1.0, k.maturity + 0.1 * n), without always being equal to it.
C10_MaturityWithinRounding ==
  /\ MaturityInRange
  /\ last.op \in {"selfGenerate", "selfReproduce", "evolve"} => MaturityKept({})
  /\ last.op = "selfOptimize" =>
       /\ MaturityKept({last.input.ontogeneticState})
       /\ FGeq(OutputMaturity, InputMaturityBefore)
       /\ FWithin(OutputMaturity,
                  FMin(FOne, ExactAdd(InputMaturityBefore,
                                      ExactTimes(FTenth, last.iterations))),
                  2 * Ulp(FHalf))

\* C10: eight iterations from maturity 0 have ended just below 0.8
C10_EightIterationsFallShort ==
  /\ last.op = "selfOptimize"
  /\ last.iterations = 8
  /\ InputMaturityBefore = FZero
  /\ FLess(OutputMaturity, FEightTenths)
  /\ FWithin(OutputMaturity, FEightTenths, Ulp(FHalf))

\* C11, as claimed: evolve on a population with zero individuals or one
\* individual returns a population and never raises, for any params.
C11_EvolveNeverRaises ==
  (pc \in {"raised", "returned", "direct"} /\ last.op \in {"evolve", "evolveRaised"}
     /\ Len(last.input.individuals) <= 1) =>
    last.op = "evolve"

\* C11: evolve has raised on an empty population that it had to breed
\* offspring for
C11_RaisedOnEmptyPopulation ==
  /\ pc = "raised"
  /\ last.op = "evolveRaised"
  /\ last.input.individuals = <<>>
  /\ EliteCount(config.evolution) < config.evolution.populationSize

\* the objects a kernel refers to, as they are in the heap h
ObjectsOf(h, kernel) ==
  [bSeries |-> h.bseries[kernel.bSeries],
   genome |-> h.genomes[kernel.genome],
   ontogeneticState |-> h.states[kernel.ontogeneticState]]

\* C12, as claimed: selfReproduce leaves every field of both parents as it was
\* (coefficients, grip, bSeries.grip, genome, ontogenetic state), whatever the
\* method; and what evolve does to its offspring changes the B-series of no
\* elite.
C12_ParentsUntouched ==
  /\ last.op = "selfReproduce" =>
       \A p \in 1..2 :
         ObjectsOf(last.after, last.parents[p]) = ObjectsOf(last.before, last.parents[p])
  /\ last.op = "evolve" =>
       \A e \in 1..Len(last.elite) :
         last.after.bseries[last.elite[e].bSeries]
           = last.before.bseries[last.elite[e].bSeries]

\* C12: a crossover has returned, and the grip of the first parent's B-series
\* is now the grip computed for an offspring
C12_ParentGripOverwritten ==
  /\ last.op = "selfReproduce"
  /\ last.method = "crossover"
  /\ last.after.bseries[last.parents[1].bSeries].grip
       # last.before.bseries[last.parents[1].bSeries].grip
  /\ last.after.bseries[last.parents[1].bSeries].grip
       = last.offspring[2].grip
  /\ last.offspring[2].bSeries = last.parents[1].bSeries

\* the kernel is one of kernels, by genome id and coefficients
CarriedOver(kernel, kernels) ==
  \E o \in 1..Len(kernels) :
    /\ last.after.genomes[kernels[o].genome].id = last.before.genomes[kernel.genome].id
    /\ kernels[o].coefficients = kernel.coefficients

\* C13: with eliteCount = floor(populationSize * elitismRate), a set of
\* min(eliteCount, |population|) individuals that no other individual of the
\* input beats in evaluated fitness is in the population evolve returns, each
\* with its genome id and its coefficients, and none of them has got a
\* mutation record in the round.
C13_ElitesCarriedOver ==
  last.op = "evolve" =>
    LET input == last.input.individuals
        evals == EvaluateFitness(last.before, input)
        n     == Min(EliteCount(config.evolution), Len(input))
    IN  \E top \in SUBSET (1..Len(input)) :
          /\ Cardinality(top) = n
          /\ \A i \in top, j \in (1..Len(input)) \ top :
               evals[i].overall >= evals[j].overall
          /\ \A i \in top :
               /\ CarriedOver(input[i], last.output.individuals)
               /\ last.after.states[input[i].ontogeneticState].mutations
                    = last.before.states[input[i].ontogeneticState].mutations

\* C13: evolve has kept one elite of a population of two and has returned it
\* next to an offspring that was mutated in the round
C13_EliteBesideMutatedOffspring ==
  /\ last.op = "evolve"
  /\ Len(last.elite) = 1
  /\ Len(last.input.individuals) = 2
  /\ last.output.individuals[1] = last.elite[1]
  /\ \E o \in 1..Len(last.output.individuals) :
       /\ last.output.individuals[o].ontogeneticState > Len(last.before.states)
       /\ last.after.states[last.output.individuals[o].ontogeneticState].mutations # <<>>

\* C14, as claimed: after an evolve round, every individual of the returned
\* population whose age is at least 20 is in stage senescent, whatever its
\* maturity.
C14_OldIsSenescent ==
  last.op = "evolve" =>
    \A i \in 1..Len(last.output.individuals) :
      LET kernel == last.output.individuals[i]
      IN  GenomeOf(last.after, kernel).age >= SenescentAge =>
            StateOf(last.after, kernel).stage = "senescent"

\* C14: an individual of maturity 0.5 or more has come out of its twentieth
\* evolve round as a juvenile
C14_OldJuvenile ==
  /\ last.op = "evolve"
  /\ \E i \in 1..Len(last.output.individuals) :
       LET kernel == last.output.individuals[i]
       IN  /\ GenomeOf(last.after, kernel).age = SenescentAge
           /\ FGeq(StateOf(last.after, kernel).maturity, FHalf)
           /\ StateOf(last.after, kernel).stage = "juvenile"

\* C15, as claimed: every kernel freshly generated by one of the five domain
\* presets at order 2 or 3 passes verify().
C15_PresetKernelsVerify ==
  (last.op = "verify" /\ last.via = "preset" /\ last.input.order \in {2, 3}) =>
    last.result = TRUE

\* C15: a preset kernel of order 2 has failed verify() on the order
\* condition for p = 1, with sufficient grip and a valid domain
C15_PresetKernelRejected ==
  /\ last.op = "verify"
  /\ last.via = "preset"
  /\ last.input.order = 2
  /\ last.result = FALSE
  /\ ~OrderCondition(mem.bseries[last.input.bSeries], 1)
  /\ TermsOfOrder(mem.bseries[last.input.bSeries], 1) = <<>>
  /\ IsSufficientGrip(last.input.grip, SufficientGrip)
  /\ ValidateDomain(last.input.domain)

\* C16, as claimed: in the expansion generateRungeKutta(4) returns, the
\* coefficients of the order-1 terms sum to 1/1! = 1 within the tolerance of
\* verifyOrderConditions.
C16_RungeKuttaFirstOrderCondition ==
  (last.op = "generateRungeKutta" /\ last.order = 4) =>
    OrderCondition(last.output, 1)

\* C16: generateRungeKutta(4) has returned five terms, all of order 4, so the
\* order-1 terms sum to 0
C16_RungeKuttaWithoutFirstOrderTerms ==
  /\ last.op = "generateRungeKutta"
  /\ last.order = 4
  /\ Len(last.output.terms) = 5
  /\ TermsOfOrder(last.output, 4) = last.output.terms
  /\ SeqSum(TermsOfOrder(last.output, 1)) = 0

\* the single tree type of each domain type
TreeTypeOfDomain ==
  [physics |-> "hamiltonian", chemistry |-> "reaction", biology |-> "metabolic",
   computing |-> "recursion", consciousness |-> "echo"]

\* C17: generate(context) returns a kernel, of the domain declared, exactly
\* when the type is one of the five domain types, 1 <= order <= 10 and the
\* tree type is the one of that domain type; otherwise it raises the
\* invalid-domain error and has built nothing, no expansion and no kernel.
C17_KernelIffValidDomain ==
  (last.op = "generate" /\ last.via = "generate") =>
    LET domain == last.domain
        valid  == /\ domain.type \in DOMAIN TreeTypeOfDomain
                  /\ 1 <= domain.order
                  /\ domain.order <= 10
                  /\ domain.treeType = TreeTypeOfDomain[domain.type]
    IN  IF valid
        THEN /\ ~last.raised
             /\ Len(last.output) = 1
             /\ last.output[1].domain = domain
             /\ Len(last.output[1].trees) >= 1
        ELSE /\ last.raised
             /\ last.error = "Invalid domain specification"
             /\ last.output = <<>>
             /\ mem = EmptyHeap

\* C17: generate has raised for a physics domain of a valid order that
\* declares the tree type of chemistry
C17_WrongTreeTypeRaised ==
  /\ last.op = "generate"
  /\ last.domain.type = "physics"
  /\ last.domain.treeType = "reaction"
  /\ last.domain.order = 2
  /\ last.raised
  /\ pc = "raised"

\* C18, as claimed: for every order n from 1 to 10, generate(n) returns as
\* many trees as count(n), the number of rooted trees with n nodes (A000081).
C18_TreesAsCounted ==
  last.op = "count" => Len(last.trees) = last.result

\* C18: generate(4) has returned the five trees of its catalog, and count(4)
\* is 4
C18_FiveTreesOfOrderFour ==
  /\ last.op = "count"
  /\ last.order = 4
  /\ Len(last.trees) = 5
  /\ last.result = 4

\* C19, as claimed: when the two parents differ at coefficient index 0, the
\* first offspring of selfReproduce(p1, p2, 'crossover') has at index 0 a
\* coefficient that is neither p1's nor p2's.
C19_CrossoverMixesFirstCoefficient ==
  (/\ last.op = "selfReproduce"
   /\ last.method = "crossover"
   /\ last.parents[1].coefficients[1] # last.parents[2].coefficients[1]) =>
    /\ last.offspring[1].coefficients[1] # last.parents[1].coefficients[1]
    /\ last.offspring[1].coefficients[1] # last.parents[2].coefficients[1]

\* C19: the parents differ at index 0, the crossover point was drawn above 0,
\* and the first offspring has the first parent's coefficient at index 0
C19_FirstCoefficientCopied ==
  /\ last.op = "selfReproduce"
  /\ last.method = "crossover"
  /\ last.parents[1].coefficients[1] # last.parents[2].coefficients[1]
  /\ last.offspring[1].coefficients[1] = last.parents[1].coefficients[1]
  /\ last.offspring[2].coefficients[1] = last.parents[2].coefficients[1]

\* C20: selfReproduce(p1, p2, 'cloning') returns exactly one offspring; it has
\* the coefficients and the trees of p1, a genome id other than p1's,
\* generation p1.generation + 1, lineage [p1's genome id], age 0, and a
\* developmental state that is reset: stage embryonic, maturity 0,
\* reproductive capability 0, empty mutation and development logs.
C20_CloneOfFirstParent ==
  (last.op = "selfReproduce" /\ last.method = "cloning") =>
    /\ Len(last.offspring) = 1
    /\ LET p1     == last.parents[1]
           clone  == last.offspring[1]
           parent == GenomeOf(last.before, p1)
           genome == GenomeOf(last.after, clone)
           state  == StateOf(last.after, clone)
       IN  /\ clone.coefficients = p1.coefficients
           /\ clone.trees = p1.trees
           /\ genome.id # parent.id
           /\ genome.generation = parent.generation + 1
           /\ genome.lineage = <<parent.id>>
           /\ genome.age = 0
           /\ state.stage = "embryonic"
           /\ state.maturity = FZero
           /\ state.reproductiveCapability = 0
           /\ state.mutations = <<>>
           /\ last.after.logs[state.developmentHistory] = <<>>

\* C20: a kernel that selfOptimize has matured, with optimization events in
\* its development log, was cloned
C20_OptimizedParentCloned ==
  /\ last.op = "selfReproduce"
  /\ last.method = "cloning"
  /\ FGeq(StateOf(last.before, last.parents[1]).maturity, FHalf)
  /\ last.before.logs[StateOf(last.before, last.parents[1]).developmentHistory] # <<>>
  /\ StateOf(last.after, last.offspring[1]).maturity = FZero

----------------------------------------------------------------------------
(* C21: the weighted grip formula *)

\* ten times 0.3*contact + 0.3*coverage + 0.2*efficiency + 0.2*stability
WeightedGrip(grip) ==
  3 * grip.contact + 3 * grip.coverage + 2 * grip.efficiency + 2 * grip.stability

\* overall is the weighted sum, up to the rounding of the fixed point
OverallIsWeighted(grip) ==
  Abs(10 * grip.overall - WeightedGrip(grip)) < 10

\* C21: every GripMetric carried by a kernel, whether set by generate, by
\* applyOperator or by crossover/mutation, satisfies
\* overall = 0.3*contact + 0.3*coverage + 0.2*efficiency + 0.2*stability.
C21_OverallIsWeightedSum ==
  \A kernel \in KernelsInHand : OverallIsWeighted(kernel.grip)

\* C21: a caller has got crossover offspring of two parents whose grip followed
\* the weighted formula, and the grip recalculateGrip gave the first offspring
\* does not follow it.
C21_CrossoverGripUnweighted ==
  /\ last.op = "selfReproduce"
  /\ last.method = "crossover"
  /\ \A i \in 1..2 : OverallIsWeighted(last.parents[i].grip)
  /\ ~OverallIsWeighted(last.offspring[1].grip)
  /\ 4 * last.offspring[1].grip.overall
       >= last.offspring[1].grip.contact + last.offspring[1].grip.coverage
          + last.offspring[1].grip.efficiency + last.offspring[1].grip.stability - 3
  /\ 4 * last.offspring[1].grip.overall
       <= last.offspring[1].grip.contact + last.offspring[1].grip.coverage
          + last.offspring[1].grip.efficiency + last.offspring[1].grip.stability

----------------------------------------------------------------------------
(* C22: the range of the grip components *)

InUnitRange(grip) ==
  \A x \in {grip.contact, grip.coverage, grip.efficiency, grip.stability, grip.overall} :
    0 <= x /\ x <= Scale

\* C22: contact, coverage, efficiency, stability and overall of every kernel
\* lie in [0,1] after any sequence of generate, applyOperator, selfOptimize,
\* crossover and mutation.
C22_GripInUnitRange ==
  \A kernel \in KernelsInHand : InUnitRange(kernel.grip)

\* C22: runOntogenesis has filled the population with a mutant of a seed that
\* the caller composed from a generated kernel, every seed has its grip in
\* range, and the mutant's stability is below 0.
C22_NegativeStability ==
  /\ pc = "done"
  /\ mode = "run"
  /\ \A i \in 1..Len(config.seedKernels) : InUnitRange(config.seedKernels[i].grip)
  /\ Len(StateOf(mem, population.individuals[2]).mutations) = 1
  /\ population.individuals[2].grip.stability < 0

----------------------------------------------------------------------------
(* C23: age and lineage of an individual *)

\* the list new still has every entry of the list old, in its place
LineageKept(old, new) ==
  /\ Len(new) >= Len(old)
  /\ \A i \in 1..Len(old) : new[i] = old[i]

\* C23: for every individual, identified by genome id, over any sequence of
\* selfOptimize, selfReproduce and evolve operations (and selfGenerate), the
\* individual stays, its age never decreases and its lineage never loses or
\* changes an entry.
C23_AgeAndLineageForward ==
  [][/\ Len(mem'.genomes) >= Len(mem.genomes)
     /\ \A ref \in 1..Len(mem.genomes) : mem'.genomes[ref].id = mem.genomes[ref].id
     /\ \A ref \in 1..Len(mem.genomes), ref2 \in 1..Len(mem'.genomes) :
          mem'.genomes[ref2].id = mem.genomes[ref].id
            => /\ mem'.genomes[ref2].age >= mem.genomes[ref].age
               /\ LineageKept(mem.genomes[ref].lineage, mem'.genomes[ref2].lineage)]_vars

\* C23: evolve has returned a population with an elite that it aged and an
\* offspring of two parents that it created, with lineage of both, and aged.
C23_OffspringAgedWithLineage ==
  /\ last.op = "evolve"
  /\ \E i \in 1..Len(last.output.individuals), j \in 1..Len(last.output.individuals) :
       LET elder == last.output.individuals[i]
           child == last.output.individuals[j]
       IN  /\ elder.genome <= Len(last.before.genomes)
           /\ GenomeOf(mem, elder).age > last.before.genomes[elder.genome].age
           /\ child.genome > Len(last.before.genomes)
           /\ GenomeOf(mem, child).age = 1
           /\ Len(GenomeOf(mem, child).lineage) = 2

----------------------------------------------------------------------------
(* C24: single-point crossover *)

\* first[0..cut) ++ second[cut..L)
Splice(first, second, cut) ==
  [i \in 1..Len(first) |-> IF i <= cut THEN first[i] ELSE second[i]]

----------------------------------------------------------------------------
(* C25: reproduction by mutation *)

\* offspring is parent with one coefficient perturbed and one record more in
\* its mutation log; h is the heap after the call, before the heap before it
MutantOf(h, before, parent, offspring) ==
  LET parentLog == StateOf(before, parent).mutations
      log       == StateOf(h, offspring).mutations
  IN  /\ offspring.genome = parent.genome
      /\ Len(offspring.coefficients) = Len(parent.coefficients)
      /\ Len(log) = Len(parentLog) + 1
      /\ LineageKept(parentLog, log)
      /\ LET record == log[Len(log)]
         IN  /\ record.geneIndex \in 0..(Len(parent.coefficients) - 1)
             /\ record.oldValue = parent.coefficients[record.geneIndex + 1]
             /\ record.newValue = offspring.coefficients[record.geneIndex + 1]
             /\ \A i \in 1..Len(parent.coefficients) :
                  i # record.geneIndex + 1
                    => offspring.coefficients[i] = parent.coefficients[i]

----------------------------------------------------------------------------
(* C26: the size of a mutation *)

\* C26: a mutation perturbs the chosen coefficient by at most 10% of its
\* previous value: |newValue - oldValue| <= 0.1 * |oldValue| for every
\* mutation record.
C26_MutationWithinTenPercent ==
  \A kernel \in KernelsInHand :
    kernel.ontogeneticState # 0
      => \A i \in 1..Len(StateOf(mem, kernel).mutations) :
           LET record == StateOf(mem, kernel).mutations[i]
           IN  10 * Abs(record.newValue - record.oldValue) <= Abs(record.oldValue)

\* C26: selfReproduce by mutation has returned an offspring whose one record
\* says that a coefficient below 1 in size was moved by a tenth of 1, not of
\* the coefficient, and changed its sign.
C26_MutationByAbsoluteTenth ==
  /\ last.op = "selfReproduce"
  /\ last.method = "mutation"
  /\ LET log == StateOf(mem, last.offspring[1]).mutations
     IN  /\ Len(log) = 1
         /\ Abs(log[1].oldValue) < Scale
         /\ log[1].oldValue > 0
         /\ log[1].newValue = log[1].oldValue - Scale \div 10
         /\ log[1].newValue < 0

----------------------------------------------------------------------------
(* C27: the iterations of selfOptimize *)

\* the expansion that iteration i of the last selfOptimize call passed to the
\* optimizer: the kernel's own in iteration 1, then the one that the iteration
\* before built (the only expansions the call allocates, one per iteration)
ExpansionEntering(i) ==
  IF i = 1 THEN last.before.bseries[last.input.bSeries]
  ELSE last.after.bseries[Len(last.before.bseries) + i - 1]

\* C27: in selfOptimize(kernel, n) the optimizer starts iteration 1 from the
\* kernel's own coefficients and iteration i+1 from the coefficients that
\* iteration i produced.
C27_IterationsContinue ==
  last.op = "selfOptimize"
  => /\ ExpansionEntering(1).terms = last.input.coefficients
     /\ \A i \in 1..(last.iterations - 1) :
          ExpansionEntering(i + 1).terms
            = Optimize(ExpansionEntering(i), last.moved).coefficients

\* C27: selfOptimize has run more than one iteration on a kernel whose
\* coefficients were those of its expansion, the optimizer took steps, and
\* every iteration started from the same coefficients, so that the result is
\* what the first iteration alone produced.
C27_EveryIterationRestarts ==
  /\ last.op = "selfOptimize"
  /\ last.moved
  /\ last.iterations > 1
  /\ ExpansionEntering(1).terms = last.input.coefficients
  /\ \A i \in 1..last.iterations :
       ExpansionEntering(i).terms = ExpansionEntering(1).terms
  /\ last.output.coefficients = Optimize(ExpansionEntering(1), TRUE).coefficients
  /\ last.output.coefficients # last.input.coefficients

----------------------------------------------------------------------------
(* C28: the operation history *)

\* the most recent n entries of the list s
MostRecent(s, n) ==
  IF Len(s) <= n THEN s ELSE SubSeq(s, Len(s) - n + 1, Len(s))

\* C28: after any sequence of selfGenerate, selfOptimize and reset calls the
\* operation history has one entry per selfGenerate/selfOptimize call made
\* since the last reset, in call order and with the matching type, restricted
\* to the most recent 1000; its length never exceeds 1000 and is 0 right
\* after reset.
C28_HistoryIsRecentCalls ==
  /\ mem.operationHistory = MostRecent(last.since, HistoryLimit)
  /\ Len(mem.operationHistory) <= HistoryLimit
  /\ last.op = "reset" => Len(mem.operationHistory) = 0

\* C28: the call after the limit was reached has been recorded, and the entry
\* of the first call since the reset, a selfOptimize, has been dropped for it.
C28_OldestDropped ==
  /\ Len(last.since) = HistoryLimit + 1
  /\ last.since[1] = "self-optimize"
  /\ last.since[2] = "self-generate"
  /\ Len(mem.operationHistory) = HistoryLimit
  /\ mem.operationHistory[1] = "self-generate"

----------------------------------------------------------------------------
(* C29: selfGenerate on a mature parent *)

----------------------------------------------------------------------------
(* C30: the execution history of the cognitive mirror *)

\* C30: after any sequence of monitorExecution calls, whether the monitored
\* functions succeed or throw, the execution history holds at most 100
\* entries, and every call has added one entry and raised introspectionLevel
\* by exactly 1.
C30_AtMostHundredStates ==
  /\ Len(mem.executionHistory) <= ExecutionLimit
  /\ mem.introspectionLevel = gen
  /\ last.op = "monitorExecution"
       => mem.executionHistory[Len(mem.executionHistory)] = last.state

\* C30: a monitored function has thrown with 100 states in the execution
\* history, and the history holds 101.
C30_ErrorPastTheLimit ==
  /\ last.op = "monitorExecution"
  /\ last.raised
  /\ Len(mem.executionHistory) = ExecutionLimit + 1
  /\ mem.executionHistory[ExecutionLimit + 1] = last.state
  /\ mem.introspectionLevel = gen

====
